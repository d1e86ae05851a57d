--------------------------- MODULE MCSyncWorkflow ---------------------------
EXTENDS SyncWorkflow, TLC

CONSTANTS f, dir, d1, d2, a, b, c

File == <<<<f>>>>
Dir == <<<<dir>>>>
Inner == <<<<dir>>, <<f>>>>

MCDevice == {d1, d2}

\* Devices are interchangeable.
DeviceSymmetry == Permutations(MCDevice)

NoBinary == {}
OneBinary == {a}
Opaque == {a, b, c}

\* One file, in an empty workspace; contents that cannot be merged.
EmptySeed == {EmptyManifest}
OpaqueFile == File :> {b, c, Directory}

\* One file that is in sync.
FileSeed == {File :> a}
AnyOpaque == File :> {a, b, c, Directory}

\* A text of two lines, of which users change one or both.
TextSeed == {File :> <<0, 0>>}
TextFile == File :> {<<1, 0>>, <<0, 1>>, <<1, 1>>, Directory}

\* A directory with a text in it.  Users change either line of the text and replace the
\* directory by a binary file.
InnerSeed == {(Dir :> Directory) @@ (Inner :> <<0, 0>>)}
InnerText == (Dir :> {a, Directory}) @@ (Inner :> {<<1, 0>>, <<0, 1>>})
=============================================================================
