--------------------------- MODULE ServerBearers ---------------------------
(***************************************************************************)
(* How sub2api servers are asked (auth_headers, login and the remote fetch  *)
(* of services/sub2api_service.rs): a call works with the settings the      *)
(* server had when the call, or the import it belongs to, was started; it   *)
(* takes the bearer of the server from the cache, or logs in and puts the   *)
(* new bearer there, and asks for page after page with the bearer it has.   *)
(***************************************************************************)
EXTENDS Integers

CONSTANTS
  BearerServers,
  BearerCalls,    \* a call or an import that keeps old settings
  MaxEntries,     \* bound on the edits of a server
  MaxPages        \* bound on the pages of a listing

ASSUME BearersAssumption == MaxEntries \in Nat /\ MaxPages \in Nat \ {0}

VARIABLES
  entered,      \* the settings of each server: email and password
  bearers,      \* token_cache: the settings each bearer was obtained with
  serverCalls

bearersVars == <<entered, bearers, serverCalls>>

Gone == -1
NoCall == [pc |-> "none"]
ServerCall == [pc : {"started", "login", "page"}, server : BearerServers,
               settings : 0..MaxEntries, bearer : -1..MaxEntries, page : 1..MaxPages]
NoBearer == -1

BearersTypeOK ==
  /\ entered \in [BearerServers -> Gone..MaxEntries]
  /\ bearers \in [BearerServers -> NoBearer..MaxEntries]
  /\ serverCalls \in [BearerCalls -> ServerCall \cup {NoCall}]

BearersInit ==
  /\ entered = [v \in BearerServers |-> 0]
  /\ bearers = [v \in BearerServers |-> NoBearer]
  /\ serverCalls = [c \in BearerCalls |-> NoCall]

DropBearer(v) == [bearers EXCEPT ![v] = NoBearer]

\* update_server and delete_server drop the bearer of the server.
EditServer ==
  \E v \in BearerServers :
    /\ entered[v] # Gone
    /\ \/ entered' = [entered EXCEPT ![v] = Gone]
       \/ entered[v] < MaxEntries /\ entered' = [entered EXCEPT ![v] = @ + 1]
    /\ bearers' = DropBearer(v)
    /\ UNCHANGED serverCalls

\* list_remote_accounts, list_remote_groups, start_import: the route looks the
\* server up.
StartCall ==
  \E c \in BearerCalls, v \in BearerServers :
    /\ serverCalls[c] = NoCall /\ entered[v] # Gone
    /\ serverCalls' = [serverCalls EXCEPT ![c] = [pc |-> "started", server |-> v,
         settings |-> entered[v], bearer |-> NoBearer, page |-> 1]]
    /\ UNCHANGED <<entered, bearers>>

\* auth_headers: the cached bearer of the server, as long as it is not expired.
AuthHeaders(c) ==
  LET call == serverCalls[c]
  IN /\ call.pc = "started"
     /\ serverCalls' = [serverCalls EXCEPT ![c] =
          IF bearers[call.server] = NoBearer THEN [call EXCEPT !.pc = "login"]
          ELSE [call EXCEPT !.pc = "page", !.bearer = bearers[call.server]]]
     /\ UNCHANGED <<entered, bearers>>

\* login, and the new entry of the cache, whatever became of the server.
Login(c) ==
  LET call == serverCalls[c]
      v == call.server
  IN /\ call.pc = "login"
     /\ \/ serverCalls' = [serverCalls EXCEPT ![c] = NoCall] /\ UNCHANGED bearers
        \/ /\ bearers' = [bearers EXCEPT ![v] = call.settings]
           /\ serverCalls' = [serverCalls EXCEPT ![c] = [call EXCEPT !.pc = "page", !.bearer = call.settings]]
     /\ UNCHANGED entered

\* A listing goes on after a full page, with the headers it has.
NextPage(call) == [call EXCEPT !.page = @ + 1]

\* An import asks for the headers of its next account again.
NextAccount(call) == [call EXCEPT !.pc = "started", !.page = @ + 1, !.bearer = NoBearer]

\* One answer; the last one, or an error, ends the call.
Answer(c) ==
  LET call == serverCalls[c]
  IN /\ call.pc = "page"
     /\ \/ serverCalls' = [serverCalls EXCEPT ![c] = NoCall]
        \/ call.page < MaxPages /\ serverCalls' = [serverCalls EXCEPT ![c] = NextPage(call)]
        \/ call.page < MaxPages /\ serverCalls' = [serverCalls EXCEPT ![c] = NextAccount(call)]
     /\ UNCHANGED <<entered, bearers>>

BearerExpires ==
  \E v \in BearerServers :
    /\ bearers[v] # NoBearer
    /\ bearers' = DropBearer(v)
    /\ UNCHANGED <<entered, serverCalls>>

BearersNext ==
  \/ EditServer \/ StartCall \/ BearerExpires
  \/ \E c \in BearerCalls :
       serverCalls[c] # NoCall /\ (AuthHeaders(c) \/ Login(c) \/ Answer(c))

BearersSpec == BearersInit /\ [][BearersNext]_bearersVars
=============================================================================
