---------------------------- MODULE Registration ----------------------------
(***************************************************************************)
(* Registrations at the upstream (register/openai_register.rs), side by     *)
(* side, as far as the mailboxes (register/mail_provider.rs) make them      *)
(* depend on each other: the round-robin index over the enabled providers,  *)
(* the file of the DDG aliases already used, and the one fixed inbox that   *)
(* every alias forwards to, where each registration looks for its own code. *)
(* A provider that is not DDG opens a mailbox of its own.                   *)
(***************************************************************************)
EXTENDS Naturals, FiniteSets

CONSTANTS
  Registrations,
  NumProviders,    \* enabled entries of mail.providers, numbered from 1
  DdgProviders,    \* those of type ddg_mail
  Aliases          \* addresses DDG hands out; at its limit it repeats one

ASSUME RegistrationAssumption ==
  NumProviders \in Nat \ {0} /\ DdgProviders \subseteq 1..NumProviders

VARIABLES
  turn,            \* PROVIDER_INDEX, modulo the number of providers
  aliasFile,       \* ddg_aliases.json
  inbox,           \* the mail with a code that was sent to an alias
  regs,            \* the registrations
  loose            \* history: aliases that failed reads and writes let be given out again

registrationVars == <<turn, aliasFile, inbox, regs, loose>>

Own == "own"       \* an address nobody shares
NoAddress == "no address"

ASSUME AliasesAssumption == Own \notin Aliases

\* What the To header of a mail is written as: the address alone; nothing, or
\* the address in angle brackets; a name before the bracketed address.
Headers == {"address", "bracketed", "name"}
Mail == [to : Aliases \cup {Own}, by : Registrations, header : Headers]
NoMail == [header |-> "no mail"]

Waiting == {"start", "turn", "alias", "check", "plain", "mailbox", "authorized",
            "password", "sent", "code", "valid", "created"}
Registering ==
  [pc : Waiting \cup {"done", "failed"}, tried : SUBSET (1..NumProviders),
   turns : 0..NumProviders, address : Aliases \cup {Own, NoAddress}, code : Mail \cup {NoMail}]

RegistrationTypeOK ==
  /\ turn \in 0..NumProviders - 1 /\ aliasFile \subseteq Aliases /\ loose \subseteq Aliases
  /\ inbox \subseteq Mail
  /\ regs \in [Registrations -> Registering]

RegistrationInit ==
  /\ turn = 0 /\ aliasFile = {} /\ inbox = {} /\ loose = {}
  /\ regs = [r \in Registrations |->
       [pc |-> "start", tried |-> {}, turns |-> 0, address |-> NoAddress, code |-> NoMail]]

\* A registration goes on, or ends with an error.
Proceeds(r, from, to) ==
  /\ regs[r].pc = from
  /\ \E pc \in {to, "failed"} : regs' = [regs EXCEPT ![r].pc = pc]

\* register_one up to the registration itself: FlareSolverr, the client.
WarmUp(r) == Proceeds(r, "start", "turn") /\ UNCHANGED <<turn, aliasFile, inbox, loose>>

\* One turn of create_mailbox's loop.  Others advance the index too: a turn
\* that lands on a provider already tried is spent.
NextProvider(r) ==
  LET reg == regs[r]
      p == turn + 1
  IN /\ reg.pc = "turn"
     /\ \/ /\ reg.turns = NumProviders
           /\ regs' = [regs EXCEPT ![r].pc = "failed"]
           /\ UNCHANGED turn
        \/ /\ reg.turns < NumProviders
           /\ turn' = (turn + 1) % NumProviders
           /\ regs' = [regs EXCEPT ![r] =
                [reg EXCEPT !.turns = @ + 1, !.tried = @ \cup {p},
                            !.pc = IF p \in reg.tried THEN "turn"
                                   ELSE IF p \in DdgProviders THEN "alias" ELSE "plain"]]
     /\ UNCHANGED <<aliasFile, inbox, loose>>

\* A mailbox of another provider: its own address, or an error that ends the
\* registration.
CreateMailbox(r) ==
  /\ regs[r].pc = "plain"
  /\ \/ regs' = [regs EXCEPT ![r].pc = "mailbox", ![r].address = Own]
     \/ regs' = [regs EXCEPT ![r].pc = "failed"]
  /\ UNCHANGED <<turn, aliasFile, inbox, loose>>

CreateDdgAlias(r) ==
  /\ regs[r].pc = "alias"
  /\ \/ \E a \in Aliases : regs' = [regs EXCEPT ![r].pc = "check", ![r].address = a]
     \/ regs' = [regs EXCEPT ![r].pc = "failed"]
  /\ UNCHANGED <<turn, aliasFile, inbox, loose>>

\* The alias is looked up (is_ddg_alias_duplicate) and, when it is unused,
\* recorded (record_ddg_alias): no await lies between the two, and one task polls
\* every registration.  A used alias is the soft error that passes on to the next
\* provider.  A file that cannot be read is no aliases; errors of the write are
\* ignored, and one after the file was emptied leaves a file that reads as no
\* aliases.  Without a JWT of the inbox the registration fails only then.
TakeAlias(r) ==
  LET a == regs[r].address
  IN /\ regs[r].pc = "check"
     /\ \E seen \in {aliasFile, {}} :
          IF a \in seen
            THEN /\ regs' = [regs EXCEPT ![r].pc = "turn", ![r].address = NoAddress]
                 /\ UNCHANGED <<aliasFile, loose>>
            ELSE /\ \E used \in {aliasFile, {}} : aliasFile' \in {used \cup {a}, aliasFile, {}}
                 /\ loose' = loose \cup ({a} \cap aliasFile) \cup ((aliasFile \cup {a}) \ aliasFile')
                 /\ \E pc \in {"mailbox", "failed"} : regs' = [regs EXCEPT ![r].pc = pc]
     /\ UNCHANGED <<turn, inbox>>

PlatformAuthorize(r) ==
  Proceeds(r, "mailbox", "authorized") /\ UNCHANGED <<turn, aliasFile, inbox, loose>>

RegisterUser(r) ==
  Proceeds(r, "authorized", "password") /\ UNCHANGED <<turn, aliasFile, inbox, loose>>

\* send_otp: the mail goes out, whether the answer arrives or not; its header
\* is the upstream's and DDG's.
SendOtp(r) ==
  /\ Proceeds(r, "password", "sent")
  /\ \E h \in Headers : inbox' = inbox \cup {[to |-> regs[r].address, by |-> r, header |-> h]}
  /\ UNCHANGED <<turn, aliasFile, loose>>

\* Mutant: whatever is in the inbox is taken.
MatchesAny(mail, address) == (mail.to = Own) = (address = Own)

\* The filter of fetch_latest_message on what parse_raw_recipient reads: it
\* strips what is in brackets, and a mail without a recipient is everyone's.
Matches(mail, address) ==
  IF address = Own \/ mail.to = Own THEN mail.to = address
  ELSE mail.header = "bracketed" \/ (mail.header = "address" /\ mail.to = address)

\* wait_for_code, to its end: a mail with a code is found at one of the polls,
\* in whatever order the inbox lists them, or none in time.
WaitForCode(r) ==
  /\ regs[r].pc = "sent"
  /\ \/ \E mail \in inbox :
          /\ Matches(mail, regs[r].address)
          /\ mail.to = Own => mail.by = r
          /\ regs' = [regs EXCEPT ![r].pc = "code", ![r].code = mail]
     \/ regs' = [regs EXCEPT ![r].pc = "failed"]
  /\ UNCHANGED <<turn, aliasFile, inbox, loose>>

\* validate_otp, with and then without the sentinel token: the upstream takes
\* only the code of this registration.
ValidateOtp(r) ==
  /\ Proceeds(r, "code", "valid")
  /\ regs'[r].pc = "valid" => regs[r].code.by = r
  /\ UNCHANGED <<turn, aliasFile, inbox, loose>>

CreateAccount(r) ==
  Proceeds(r, "valid", "created") /\ UNCHANGED <<turn, aliasFile, inbox, loose>>

ExchangeRegisteredTokens(r) ==
  Proceeds(r, "created", "done") /\ UNCHANGED <<turn, aliasFile, inbox, loose>>

\* Registrations in flight are gone; the file and the inbox stay.
RegistrationRestart ==
  /\ turn' = 0
  /\ regs' = [r \in Registrations |->
       IF regs[r].pc \in Waiting \ {"start"} THEN [regs[r] EXCEPT !.pc = "failed"] ELSE regs[r]]
  /\ UNCHANGED <<aliasFile, inbox, loose>>

RegistrationNext ==
  \/ \E r \in Registrations :
       \/ WarmUp(r) \/ NextProvider(r) \/ CreateMailbox(r) \/ CreateDdgAlias(r)
       \/ TakeAlias(r) \/ PlatformAuthorize(r) \/ RegisterUser(r)
       \/ SendOtp(r) \/ WaitForCode(r) \/ ValidateOtp(r) \/ CreateAccount(r)
       \/ ExchangeRegisteredTokens(r)
  \/ RegistrationRestart

RegistrationSpec == RegistrationInit /\ [][RegistrationNext]_registrationVars

---------------------------------------------------------------------------

\* Although every alias forwards to one inbox, a registration takes only a code
\* that was sent for itself: unless the mail does not say whom it is for, or
\* the alias was given out twice, which only happens to one that was found unused
\* by a read that failed, or that the file did not keep: a write failed, or a
\* record that could not read it replaced it.
OwnCode ==
  \A r \in Registrations :
    LET code == regs[r].code
    IN code # NoMail /\ code.header = "address" => code.by = r \/ regs[r].address \in loose
=============================================================================
