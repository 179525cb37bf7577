SPECIFICATION Spec
CONSTANTS
  Objects = {s1, s2}
  Codes = {0, 2, 500}
  Messages = {NoMessage, m}
  NoMessage = NoMessage
  Urls = {display, url}
  Payloads = {shown, hidden}
  DisplayUrl = display
  Marks = {shown, hidden}
  NoPayload = NoPayload
  NoStatus = NoStatus
INVARIANTS TypeOK ErrorsAreFound ExceptionStaysTrue OkIsBare CanonicalPickles
