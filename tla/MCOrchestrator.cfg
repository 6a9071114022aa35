CONSTANTS
  m1 = m1
  m2 = m2
  m3 = m3
  chat = chat
  thread1 = thread1
  thread2 = thread2
  NoId = NoId
  Turns = {t1, t2}
  NoTurn = NoTurn
  MaxTopic = 4
  Sources = {"memory", "feishu"}
  MinPage = 1
  MaxPage = 3
  Factor = 2
  DefaultLimit = 2
  Untold = {"recalled", "processing"}
  Messages = {m1, m2, m3}
  ChatOf <- MCChatOf
  ThreadIdOf <- MCThreadIdOf
  RootIdOf <- MCRootIdOf
  Texts = {x}
  NoText = NoText
  c1 = c1
  c2 = c2
  Calls = {c1, c2}
  CallLists <- MCCallLists
  MaxHistory = 2

SPECIFICATION FairSpec

INVARIANTS
  TypeOK
  PromptHasOwnMessage
  PromptFits
  ReplyRemembered
  CallsAnswered
  StreamClosed

PROPERTY
  TurnsEnd

CHECK_DEADLOCK FALSE
