CONSTANTS
  sipcall = sipcall
  backup = backup
  sip = sip
  tls = tls
  noon = noon
  NoWord = NoWord
  NoTime = NoTime
  Capture <- MCCapture
  InOrder <- MCInOrder
  StartDir <- MCStart
  Word <- MCWord
  Token <- MCToken
  Box <- MCBox
  Moment <- MCMoment
  InName <- MCInName
  InStamp <- MCInStamp
  Speaks <- MCSpeaks
  First <- MCFirst
  Final <- MCFinal
  Mtime <- MCMtime
  UploadSeqs <- MCUploads
  Failing = {"list", "scan", "status", "upload"}
  MaxActs = 3
  MaxDir = 1
SPECIFICATION FairSpec
INVARIANTS Coherent NoneForgotten
PROPERTIES RowsOnlyLeave ListSettles
CHECK_DEADLOCK FALSE
