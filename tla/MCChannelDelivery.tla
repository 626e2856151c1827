------------------------- MODULE MCChannelDelivery -------------------------
(* Model-checking instances of ChannelDelivery: one conversation.            *)
EXTENDS ChannelDelivery, TLC

CONSTANTS m1, chat

OneChat == m1 :> chat
=============================================================================
