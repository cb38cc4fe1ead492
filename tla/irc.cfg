SPECIFICATION Spec
CONSTANTS
  ann = ann
  bob = bob
  cid = cid
  chat = chat
  plus = plus
  Channels = {chat, plus}
  Nicks = {ann, bob, cid}
  Modeless = {plus}
  ChanTypes = {chat}
  MaxStream = 2
  MaxOut = 2
INVARIANTS TypeOK Linked Accurate
SYMMETRY Symmetry
