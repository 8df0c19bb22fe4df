SPECIFICATION MenuSpec
CONSTANTS
  film = film
  song = song
  post = post
  Link = {film, post}
  LadderOf <- MCLadders
  Sound = {}
  Solo = {}
  Tapper = {h1, h2}
  NoLink = NoLink
  MaxUpdates = 3
  MaxKeys = 1
CHECK_DEADLOCK FALSE
INVARIANT
  VerdictsOwn
