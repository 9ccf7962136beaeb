------------------------------ MODULE MCChannels ------------------------------
(* The instance of Channels for TLC: a reply, group messages, or the agent's removal. *)
EXTENDS ChannelsProps

MCScenes == {<<"napcat", {"reply"}>>, <<"napcat", {"message"}>>,
             <<"telegram", {"message"}>>, <<"telegram", {"removal"}>>}
=============================================================================
