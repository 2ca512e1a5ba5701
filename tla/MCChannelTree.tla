---------------------------- MODULE MCChannelTree ----------------------------
(***************************************************************************)
(* Instances of the channel tree.  In runs of invariants only, channels    *)
(* are interchangeable.                                                    *)
(***************************************************************************)
EXTENDS ChannelTree, TLC

AnyOrder == Permutations(Channels)

=============================================================================
