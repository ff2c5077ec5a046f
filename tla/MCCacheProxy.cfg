CONSTANTS
  c1 = c1  c2 = c2
  mpd = mpd  seg = seg  big = big  lost = lost  none = none
  Users = {c1, c2}
  Files = {mpd, seg, big, lost}
  Missing = {lost}
  Mpds = {mpd}
  Mpd = mpd
  Size <- MCSize
  SndBuf = 4
  MaxAsks = 3
  MayAbort = FALSE
  NoFile = none
SPECIFICATION FairSpec
INVARIANTS TypeOK SizesRight ReplyIsOfFile
PROPERTY AskedIsAnswered
CHECK_DEADLOCK FALSE
