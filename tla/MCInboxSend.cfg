CONSTANTS
  p1 = p1
  p2 = p2
  m1 = m1
  kPerson = kPerson
  kMachine = kMachine
  kAuto = kAuto
  kOpener = kOpener
  t1 = t1
  AutoReply = AutoReply
  Opener = Opener
  Poller = Poller
  NoOne = NoOne
  Persons = {p1}
  Machines = {m1}
  Takers <- MCTakers
  Moments <- MCMoments
  Keys = {kPerson, kMachine}
  KeyOf <- MCKeyOf
  Typed = {}
  Own = {}
SPECIFICATION Spec
INVARIANTS PersonWins TakeoverHolds
PROPERTIES ImplementsOnce
