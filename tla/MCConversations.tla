--------------------------- MODULE MCConversations ---------------------------
(* Values for the constants of Conversations: two users of one guild, a    *)
(* channel, a thread in it, and ana's direct messages, which the gateway   *)
(* delivers as a channel without a guild.                                  *)
EXTENDS Conversations, TLC

CONSTANTS ana, bo, acme, sales, pricing, anaDM, m1, m2, m3

InSales(u) ==
  [user |-> u, guild |-> acme, channel |-> sales, thread |-> NONE,
   admin |-> FALSE]

InThread(u) == [InSales(u) EXCEPT !.thread = pricing]

AnaDirect ==
  [user |-> ana, guild |-> NONE, channel |-> anaDM, thread |-> NONE,
   admin |-> FALSE]

(* Two users at once in one channel, and a thread of that channel.         *)
MixedWhere == m1 :> InSales(ana) @@ m2 :> InSales(bo) @@ m3 :> InThread(ana)

(* Three messages in one channel.                                          *)
ChannelWhere == m1 :> InSales(ana) @@ m2 :> InSales(bo) @@ m3 :> InSales(ana)

(* Two direct messages of one user.                                        *)
DirectWhere == m1 :> AnaDirect @@ m2 :> AnaDirect

IdSymmetry == Permutations(CallIds) \cup Permutations(Statements)
===============================================================================
