---------------------------- MODULE MCDevNumbers ----------------------------
(***************************************************************************)
(* An instance of DevNumbers for TLC: the numbers of DRM and accel nodes,  *)
(* and numbers around the places where the encodings differ.  TLC's        *)
(* integers have 32 bits, so majors stay below 2^11 and minors below 2^19. *)
(***************************************************************************)
EXTENDS DevNumbers

Number(ma, mi) == [major |-> ma, minor |-> mi]

MCNumbers ==
    {Number(226, 0), Number(226, 128),   \* card0 and renderD128
     Number(261, 0), Number(5, 0),       \* accel0, and 261 cut to 8 bits
     Number(226, 256), Number(227, 0),   \* a minor that needs the ninth bit
     Number(2047, 524287)}               \* the largest within reach

=============================================================================
