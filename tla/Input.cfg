\* Every stream of up to six bytes, and one or two messages in every layout,
\* cut in every way.
SPECIFICATION Spec
CONSTANTS
  CR = CR
  LF = LF
  Space = Space
  Colon = Colon
  NoMeaning = NoMeaning
  a = a
  Letter = {a}
  Command <- MCCommand
  Middle <- MCMiddle
  Trailing <- MCTrailing
  MaxBytes = 6
  MaxComposed = 12
INVARIANTS
  FramesWhatWasSent
  ReadAsMeant
  WordsAreWords
