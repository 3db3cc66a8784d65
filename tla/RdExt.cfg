SPECIFICATION ExtSpec
CONSTANTS
  Ext = Ext
  Member = Member
  Entities = {Ext, Member}
  OnWire = {Ext}
  Nothing = Nothing
  MaxBindings = 3
  MaxSends = 2
INVARIANTS
  HandOversFindTheirMessage
  HandshakeAgrees
  MessagesArrive
  InOrder
CHECK_DEADLOCK FALSE
