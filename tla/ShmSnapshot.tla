---------------------------- MODULE ShmSnapshot ----------------------------
(***************************************************************************)
(* What the shared areas of libwr promise to the processes that read them: *)
(* a reader either obtains the image of the area that was last published,  *)
(* whole, or it obtains nothing.  WrsShm implements it with a sequence     *)
(* number.                                                                 *)
(***************************************************************************)
CONSTANTS
    Words,      \* the words of the area that the properties tell apart
    Values,     \* what a word can hold
    Readers,    \* reader processes
    NoImage     \* a reader that has obtained nothing

VARIABLES
    area,       \* the image last published by the writer
    obtained    \* [Readers -> image last obtained, or NoImage]

Images == [Words -> Values]

Init ==
    /\ area \in Images
    /\ obtained = [r \in Readers |-> NoImage]

\* The writer replaces the published image in one step.
Publish ==
    /\ area' \in Images
    /\ UNCHANGED obtained

\* A reader takes the whole published image in one step.
Obtain(r) ==
    /\ obtained' = [obtained EXCEPT ![r] = area]
    /\ UNCHANGED area

\* Readers start over, or the writer does: what they had is forgotten.
Forget ==
    /\ \E S \in SUBSET Readers :
          obtained' = [r \in Readers |-> IF r \in S THEN NoImage ELSE obtained[r]]
    /\ UNCHANGED area

Next == Publish \/ Forget \/ \E r \in Readers : Obtain(r)

Spec == Init /\ [][Next]_<<area, obtained>>
=============================================================================
