---------------------------- MODULE CloudStreamMC ----------------------------
(* Two conversations, one with every kind of message and a second, late       *)
(* system message, and every reply of up to three blocks.                     *)
EXTENDS CloudStream

MCConversations ==
  {<<"user">>,
   <<"system", "user", "assistant", "tool", "system", "user">>}

MCReplies ==
  {r \in UNION {[1 .. k -> [is : {"text", "tool"}, n : 1 .. 3]] : k \in 0 .. 3} :
     \A i \in DOMAIN r : r[i].n = i}
=============================================================================
