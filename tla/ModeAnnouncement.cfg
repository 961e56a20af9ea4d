SPECIFICATION Spec
CONSTANTS
  NoFd = NoFd
  Empty = Empty
  fa = fa
  fb = fb
  fc = fc
  anna = anna
  bob = bob
  cara = cara
  two = two
  MaxLetters = 2
  Fd = {fa, fb}
  Text = {anna, bob, cara, two}
  Who <- MCWho
  NameOf <- MCNameOf
  LimitOf <- MCLimitOf
  ModeLine <- MCModeLine
INVARIANTS
  TypeOK
  AnnouncementIsComplete
  ModesKeepChannelSound
  LettersAreAnswered
