------------------------- MODULE MCAnthropicRequest -------------------------
(* AnthropicRequest with two chats, which nothing tells apart.               *)
EXTENDS AnthropicRequest

ChatSymmetry == Permutations(Chats)

=============================================================================
