---------------------------- MODULE UserFsClient ----------------------------
(***************************************************************************)
(* The file system used by a client that keeps the contract the code       *)
(* relies on:                                                              *)
(*                                                                         *)
(*   - the descriptor table has been allocated (the commented-out main of  *)
(*     userfs.c does it), and no more descriptors are open than it has     *)
(*     slots;                                                              *)
(*   - when a file is opened, the open descriptors are 0, 1, ... with no   *)
(*     gap, and no file has lost its last descriptor yet;                  *)
(*   - the latter also holds when a file is deleted;                       *)
(*   - a file is written before it is read, and before its last close;     *)
(*   - it is read from offset 0, no more of it than it holds (file_size)   *)
(*     and nothing of the last block if there are several;                 *)
(*   - only open descriptors are used.                                     *)
(***************************************************************************)
EXTENDS UserFs, FiniteSets

CONSTANTS
  Sizes,       \* the sizes a client passes
  Lengths,     \* the sizes of a first read
  OpenModes    \* and the access modes

ASSUME UserFsClientAssumption == 
  Sizes \subseteq Nat /\ Lengths \subseteq Nat /\ OpenModes \subseteq Modes

VARIABLES
  view,      \* the client's own record: the file each open descriptor
             \* number was opened for, or NULL
  written,   \* files written to
  sealed     \* whether a file has lost its last descriptor

vars == <<fsVars, view, written, sealed>>

Init ==
  /\ FsInit
  /\ view = [d \in Slots |-> NULL] /\ written = {} /\ sealed = FALSE

Opened == {d \in Slots : view[d] # NULL}
OpenedFor(f) == {d \in Opened : view[d] = f}

MayOpen ==
  ~sealed /\ Opened = 0 .. Cardinality(Opened) - 1 /\ Opened # Slots
MayClose(d) == view[d] \in written \/ OpenedFor(view[d]) # {d}

\* A read of so many bytes does not reach the last block of several, or the end
\* of the only one.
Clear(blocks, size) == size \div BLOCK_SIZE < Max({1, Len(blocks) - 1})
MayRead(d, size) ==
  /\ view[d] \in written /\ Desc(d).offset = 0
  /\ size <= FileSize(view[d])
  /\ Clear(files[view[d]].block_list, size)

\* The call returns the descriptor number d for the file f.
Given(d, f) == view' = [view EXCEPT ![d] = f]

Creates(n, mode, f, x) ==
  /\ OpenCreate(n, mode, f, x) /\ Given(file_descriptor_count, f)
  /\ UNCHANGED <<written, sealed>>
Opens(n, mode, x) ==
  /\ OpenExisting(n, mode, x) /\ Given(file_descriptor_count, FindFile(n))
  /\ UNCHANGED <<written, sealed>>
OpenFails(n) ==
  (OpenCreateExists(n) \/ OpenMissing(n)) /\ UNCHANGED <<view, written, sealed>>
Writes(d, size) ==
  /\ Write(d, size)
  /\ written' = written \cup {view[d]}
  /\ UNCHANGED <<view, sealed>>
Reads(d, size) ==
  MayRead(d, size) /\ Read(d, size) /\ UNCHANGED <<view, written, sealed>>
IsRefused(d) ==
  Refused(d) /\ UNCHANGED <<view, written, sealed>>
Closes(d) ==
  /\ MayClose(d) /\ Close(d)
  /\ view' = [view EXCEPT ![d] = NULL]
  /\ sealed' = (sealed \/ OpenedFor(view[d]) = {d})
  /\ UNCHANGED written
Deletes(n) ==
  Delete(n) /\ UNCHANGED <<view, written, sealed>>

Next ==
  \/ MayOpen /\ \E n \in Names, mode \in OpenModes, x \in Fds :
       (\E f \in Files : Creates(n, mode, f, x)) \/ Opens(n, mode, x)
  \/ MayOpen /\ \E n \in Names : OpenFails(n)
  \/ \E d \in Opened, size \in Sizes : Writes(d, size) \/ Reads(d, size)
  \/ \E d \in Opened : IsRefused(d) \/ Closes(d)
  \/ ~sealed /\ \E n \in Names : Deletes(n)

Spec == Init /\ [][Next]_vars

-----------------------------------------------------------------------------
\* Every variable has values of its kind.
TypeOK ==
  /\ files \in [Files -> File \cup {NULL}]
  /\ file_list \in Seq(Files)
  /\ fds \in [Fds -> FileDesc \cup {NULL}]
  /\ file_descriptors \in [Slots -> Fds \cup {NULL}]
  /\ file_descriptor_count \in 0 .. file_descriptor_capacity
  /\ ufs_err_code \in ErrorCodes
  /\ view \in [Slots -> Files \cup {NULL}]
  /\ written \in SUBSET Files
  /\ sealed \in BOOLEAN

\* No call the contract allows touches freed or uninitialised memory, leaves
\* the table or fails the assertion of ufs_open or of read_data: neither the
\* walk over file_list, which keeps freed files, nor the scan of the table,
\* which keeps the pointers of closed descriptors, nor a read, which counts
\* the bytes it has read in two ways.
MemorySafe ==
  /\ MayOpen =>
       /\ TableOK
       /\ \A n \in Names : /\ LookupOK(n)
                           /\ FindFile(n) # NULL => HoldingOK(FindFile(n))
  /\ ~sealed => \A n \in Names : LookupOK(n)
  /\ \A d \in Opened :
       /\ DescriptorOK(d)
       /\ view[d] \in written => DeallocateOK(view[d])
       /\ \A size \in Sizes :
            MayRead(d, size) => ReadOK(files[view[d]].block_list, 0, size)

\* refs counts the open descriptors of a file, and a file is allocated as long
\* as it has one.
RefsExact ==
  \A f \in Files :
    IF files[f] = NULL THEN OpenedFor(f) = {}
    ELSE files[f].refs = Cardinality(OpenedFor(f)) /\ files[f].refs > 0

\* A name leads to one file at most, and a file without a name to none.
UniqueNames ==
  \A f, g \in Files :
    files[f] # NULL /\ files[g] # NULL /\ files[f].name = files[g].name
      => f = g \/ files[f].name = NULL

\* What a read of any size does that starts at offset 0 of a file written to.
\* It aborts, in an assertion or at a NULL block, unless it is clear of the last
\* block, or the last write was of one block exactly and lost it, when whole
\* blocks can be asked for.  A read that returns gives what was asked for, as
\* long as the file holds that much; a file that has several blocks never gives
\* more than it holds, a single block does.
FirstReads ==
  \A d \in Opened, size \in Lengths :
    LET blocks == files[view[d]].block_list
        got == TotalRead(blocks, size)
        lost == blocks = <<0>> /\ size % BLOCK_SIZE = 0
    IN blocks # <<>> =>
         /\ ReadOK(blocks, 0, size) <=> Clear(blocks, size) \/ lost
         /\ ReadOK(blocks, 0, size) =>
              /\ size <= FileSize(view[d]) => got = size
              /\ got > FileSize(view[d]) => Len(blocks) = 1

-----------------------------------------------------------------------------
(* The inductive invariant behind the properties above.                    *)

\* An open descriptor number leads to a descriptor of its own, and that to the
\* file the number was opened for.
TableInv ==
  /\ file_descriptor_count = Cardinality(Opened)
  /\ \A d \in Opened : DescriptorOK(d) /\ Desc(d).file = view[d]
  /\ \A d, e \in Opened : file_descriptors[d] = file_descriptors[e] => d = e

\* file_list has every file that is allocated and, until a file has lost its
\* last descriptor, no other.
ListInv ==
  /\ \A f \in Files : files[f] # NULL => \E i \in DOMAIN file_list : file_list[i] = f
  /\ ~sealed => \A i \in DOMAIN file_list : files[file_list[i]] # NULL

\* The blocks of a file are those of one write, or there are none yet.
WrittenInv ==
  \A f \in Files :
    /\ files[f] # NULL => files[f].block_list \in {<<>>} \cup {Written(s) : s \in Sizes}
    /\ f \in written => IF files[f] = NULL THEN sealed ELSE DeallocateOK(f)

IInv ==
  TypeOK /\ RefsExact /\ UniqueNames /\ TableInv /\ ListInv /\ WrittenInv

-----------------------------------------------------------------------------
\* The code implements the flat file system, whose content is what file_size
\* tells of it.
WithName(n) == {f \in Files : files[f] # NULL /\ files[f].name = n}

Only(S) == CHOOSE f \in S : TRUE

Directory == [n \in Names |-> IF WithName(n) = {} THEN NULL ELSE Only(WithName(n))]
OpenFiles == [d \in Slots |-> IF view[d] = NULL THEN NULL ELSE Desc(d).file]
Content == [f \in Files |-> IF files[f] = NULL THEN 0 ELSE FileSize(f)]

Flat == INSTANCE FlatFs WITH
  dir <- Directory, open <- OpenFiles, content <- Content

\* Deleting a name leaves open files alone, a new file of that name is another
\* file, a write reaches the file its descriptor was opened for and no other,
\* and what a descriptor leads to changes only when it is closed.
FlatFileSystem == Flat!Spec

=============================================================================
