------------------------------- MODULE MCDfu -------------------------------
(* Small instances of Dfu for TLC: one host, one client and, for the runs   *)
(* about confusion of hosts, a second host.                                 *)
EXTENDS Dfu, TLC

CONSTANTS host, client, other

Img(id, sha, size, force) == [id |-> id, sha |-> sha, size |-> size,
                              force |-> force]

MCFactory == Img("factory", "sha0", 1, FALSE)

\* Images of one unit.
MCSmallA       == Img("small_a", "sha1", 1, FALSE)
MCSmallB       == Img("small_b", "sha2", 1, FALSE)
MCSmallImages  == {MCFactory, MCSmallA, MCSmallB}
MCSmallOffered == {MCSmallA, MCSmallB}
MCSmallAOnly   == {MCSmallA}

\* An image of two chunks of one unit.
MCTwoChunks  == Img("two_chunks", "sha1", 2, FALSE)
MCTwoImages  == {MCFactory, MCTwoChunks}
MCTwoOffered == {MCTwoChunks}

\* An image of two chunks that straddle a page (ChunkSize 2, PageLen 3), and
\* one that fits in no slot.
MCPaged       == Img("paged", "sha1", 4, FALSE)
MCHuge        == Img("huge", "sha3", 9, FALSE)
MCFaultImages == {MCFactory, MCPaged, MCHuge}

\* A rebuild of the factory image from the same commit, update forced.
MCRebuild       == Img("rebuild", "sha0", 1, TRUE)
MCForcedImages  == {MCFactory, MCRebuild}
MCForcedOffered == {MCRebuild}

MCOneHost  == {<<host, client>>}
MCTwoHosts == {<<host, client>>, <<other, client>>}
MCBothWays == {<<host, client>>, <<client, host>>}

=============================================================================
