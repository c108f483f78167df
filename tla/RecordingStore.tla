--------------------------- MODULE RecordingStore ---------------------------
(***************************************************************************)
(* What the SD card module promises to the rest of the badge, without its  *)
(* flags, its mutex or its file system calls: sensors record sample files, *)
(* one at a time per file type; a maintenance operation (erase a file, a   *)
(* folder or the whole card) has the card to itself; a sample file is only *)
(* ever removed by such an operation; a power loss closes everything and   *)
(* keeps the card.                                                         *)
(***************************************************************************)
CONSTANTS FileTypes,   \* the kinds of sample file
          SampleFiles, \* every sample file there can be
          NoFile       \* no file is being recorded

VARIABLES recording,   \* the file each type is recording, or NoFile
          card,        \* the sample files on the card
          exclusive    \* a maintenance operation has the card to itself

vars == <<recording, card, exclusive>>

Nothing == [t \in FileTypes |-> NoFile]

Init == /\ recording = Nothing
        /\ card = {}
        /\ exclusive = FALSE

\* A recording starts in a file that is not on the card yet.
Record(t, f) == /\ ~exclusive
                /\ f \notin card
                /\ recording' = [recording EXCEPT ![t] = f]
                /\ card' = card \cup {f}
                /\ UNCHANGED exclusive

\* A recording ends, or is given up.
Finish(t) == /\ recording' = [recording EXCEPT ![t] = NoFile]
             /\ UNCHANGED <<card, exclusive>>

\* Maintenance starts only when nothing is being recorded.
Acquire == /\ ~exclusive
           /\ recording = Nothing
           /\ exclusive' = TRUE
           /\ UNCHANGED <<recording, card>>

Remove(gone) == /\ exclusive
                /\ card' = card \ gone
                /\ exclusive' \in BOOLEAN
                /\ UNCHANGED recording

PowerLoss == /\ recording' = Nothing
             /\ exclusive' = FALSE
             /\ UNCHANGED card

Next == \/ \E t \in FileTypes: \/ \E f \in SampleFiles: Record(t, f)
                               \/ Finish(t)
        \/ Acquire
        \/ \E gone \in SUBSET SampleFiles: Remove(gone)
        \/ PowerLoss

Spec == Init /\ [][Next]_vars
=============================================================================
