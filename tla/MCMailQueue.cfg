CONSTANTS
  Depth = 2
  Msgs = {m1, m2}
  NoMsg = NoMsg
  Senders = {sender}
  Receivers = {receiver}
  Nobody = Nobody
SPECIFICATION FairSpec
INVARIANTS MailInv
PROPERTIES SendReachesReceiver SendReturns
CHECK_DEADLOCK FALSE
