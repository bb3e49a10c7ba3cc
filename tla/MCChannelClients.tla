-------------------------- MODULE MCChannelClients --------------------------
(* Two channels of one slot and two values: sends and the relay block, and a
   close meets values in every place. *)
EXTENDS ChannelClients
MCChan == {a, b}
MCItem == 1 .. NumValues
MCSender == {sender, relay}
MCReceiver == {relay, ranger, selector}
=============================================================================
