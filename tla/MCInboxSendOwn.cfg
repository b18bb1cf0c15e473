CONSTANTS
  p1 = p1
  p2 = p2
  m1 = m1
  kPerson = kPerson
  kMachine = kMachine
  kAuto = kAuto
  kOpener = kOpener
  t1 = t1
  AutoReply = AutoReply
  Opener = Opener
  Poller = Poller
  NoOne = NoOne
  Persons = {p1, p2}
  Machines = {}
  Takers <- MCTakers
  Moments <- MCMoments
  Keys = {kPerson, kAuto, kOpener}
  KeyOf <- MCKeyOf
  Typed = {t1}
  Own = {AutoReply, Opener}
SPECIFICATION Spec
INVARIANTS LedgerTrue PersonWins
PROPERTIES ToldTrue
