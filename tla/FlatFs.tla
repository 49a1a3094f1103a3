------------------------------- MODULE FlatFs -------------------------------
(***************************************************************************)
(* What the file system promises: a directory of names, files that keep    *)
(* their content as long as a descriptor is open on them, whatever happens *)
(* to their name, and descriptors that stay what they were opened for.     *)
(* A file lives no longer than its descriptors.                            *)
(***************************************************************************)
CONSTANTS Names, Files, Slots, NULL

VARIABLES
  dir,     \* the file that has each name, or NULL
  open,    \* the file of each open descriptor number, or NULL
  content  \* what each file holds: how many bytes, 0 until it is written to

vars == <<dir, open, content>>

Init ==
  /\ dir = [n \in Names |-> NULL]
  /\ open = [d \in Slots |-> NULL]
  /\ content = [f \in Files |-> 0]

Opened(f) == {d \in Slots : open[d] = f}

Create(n, f, d) ==
  /\ dir[n] = NULL /\ open[d] = NULL /\ Opened(f) = {}
  /\ dir' = [dir EXCEPT ![n] = f]
  /\ open' = [open EXCEPT ![d] = f]
  /\ UNCHANGED content

Open(n, d) ==
  /\ dir[n] # NULL /\ open[d] = NULL
  /\ open' = [open EXCEPT ![d] = dir[n]]
  /\ UNCHANGED <<dir, content>>

Unlink(n) ==
  /\ dir[n] # NULL
  /\ dir' = [dir EXCEPT ![n] = NULL]
  /\ UNCHANGED <<open, content>>

\* Through a descriptor of the file only.
Write(d) ==
  /\ open[d] # NULL
  /\ content' = [content EXCEPT ![open[d]] = content'[open[d]]]
  /\ UNCHANGED <<dir, open>>

Close(d) ==
  LET f == open[d] last == Opened(f) = {d} IN
  /\ f # NULL
  /\ open' = [open EXCEPT ![d] = NULL]
  /\ dir' = IF last THEN [n \in Names |-> IF dir[n] = f THEN NULL ELSE dir[n]]
                    ELSE dir
  /\ content' = IF last THEN [content EXCEPT ![f] = 0] ELSE content

Next ==
  \/ \E n \in Names, d \in Slots : \E f \in Files : Create(n, f, d)
  \/ \E n \in Names, d \in Slots : Open(n, d)
  \/ \E n \in Names : Unlink(n)
  \/ \E d \in Slots : Write(d) \/ Close(d)

Spec == Init /\ [][Next]_vars
=============================================================================
