---------------------------- MODULE MCSidecarAccess ----------------------------
EXTENDS SidecarAccess, TLC

Names == Permutations(User) \cup Permutations(Request)
=============================================================================
