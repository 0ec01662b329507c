---------------------------- MODULE MCActorRuntime ----------------------------
(* One session: a cc_session actor and the actor of its Feishu thread.      *)
EXTENDS ActorRuntimeTable, TLC

CONSTANTS cc, thread

OneCC      == {cc}
OneThread  == {thread}
PeerOf     == cc :> thread @@ thread :> cc
ParentIsCC == cc :> Nobody @@ thread :> cc
Identities == Permutations(Obj) \cup Permutations(Task)
=============================================================================
