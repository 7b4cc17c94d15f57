SPECIFICATION FairSpec
CONSTANTS
  t1 = t1
  t2 = t2
  l1 = l1
  Threads = {t1, t2}
  Listeners = {l1}
  Devices = {1, 2}
  Policies = {"images"}
  Scenes <- MCScenes
  History = 2
  MaxId = 4
  MaxRequest = 2
  MaxEvents = 2
  Nothing = Nothing
INVARIANT TypeOK ListenersInformed EndInOrder FramesAreComplete PoliciesSettle EarlyAnswerNotLost RequestsAreApart
PROPERTY ListenersLive CallsReturn
CHECK_DEADLOCK FALSE
