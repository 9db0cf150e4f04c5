CONSTANTS
  Images = {"a"}
  Handled = {"a"}
  Syncers = {"s1"}
  Deleters = {"d1"}
  Modes = {"webdav"}
SPECIFICATION GallerySpec
PROPERTIES RecordsStay
CHECK_DEADLOCK FALSE
