------------------------------- MODULE UserFs -------------------------------
(***************************************************************************)
(* The in-memory file system of src/fs/userfs.c: the list of files, their  *)
(* blocks, and the table of descriptors.                                   *)
(*                                                                         *)
(* The library is sequential, so a call is one step.  A call that would    *)
(* use freed or uninitialised memory, leave an array or fail an assertion  *)
(* does not return, and is no step of the model; the operators named OK    *)
(* say when a call is free of that.  Files and descriptors are addresses:  *)
(* malloc may give out a freed one again.                                  *)
(***************************************************************************)
EXTENDS Integers, Sequences, FiniteSetsExt

CONSTANTS
  Names,                     \* file names
  Files,                     \* addresses of struct file
  Fds,                       \* addresses of struct filedesc
  NULL,
  BLOCK_SIZE,
  MAX_FILE_SIZE,
  file_descriptor_capacity   \* length of the descriptor table

Slots == 0 .. file_descriptor_capacity - 1

\* enum open_flags without UFS_CREATE, and enum ufs_error_code.
Modes == {"READ_ONLY", "WRITE_ONLY", "READ_WRITE"}
ErrorCodes == {"NO_ERR", "NO_FILE", "NO_FD", "NO_MEM", "NOT_IMPLEMENTED",
               "NO_PERMISSION"}

\* A block is its occupied count: its memory is not modelled, its neighbours
\* are those in the sequence it is in.
Block == 0 .. BLOCK_SIZE
File == [name : Names \cup {NULL}, refs : Nat, block_list : Seq(Block)]
FileDesc == [file : Files, offset : Nat, mode : Modes]

ASSUME UserFsAssumption ==
  /\ BLOCK_SIZE \in Nat \ {0} /\ MAX_FILE_SIZE \in Nat \ {0}
  /\ file_descriptor_capacity \in Nat \ {0}
  /\ NULL \notin Names \cup Files \cup Fds
  /\ NULL \notin File /\ NULL \notin FileDesc

VARIABLES
  files,                   \* [name, refs, block_list] of each struct file,
                           \* NULL where none is allocated
  file_list,               \* the linked list, newest first
  fds,                     \* [file, offset, mode] of each struct filedesc
  file_descriptors,        \* the descriptor table
  file_descriptor_count,
  ufs_err_code

fsVars == <<files, file_list, fds, file_descriptors, file_descriptor_count,
            ufs_err_code>>

FsInit ==
  /\ files = [f \in Files |-> NULL]
  /\ file_list = <<>>
  /\ fds = [x \in Fds |-> NULL]
  /\ file_descriptors = [d \in Slots |-> NULL]
  /\ file_descriptor_count = 0
  /\ ufs_err_code = "NO_ERR"

\* A call that returns -1 and sets the error code.
Fail(code) ==
  /\ ufs_err_code' = code
  /\ UNCHANGED <<files, file_list, fds, file_descriptors,
                 file_descriptor_count>>

-----------------------------------------------------------------------------
(* Blocks.  A block list is the sequence of the occupied counts of its     *)
(* blocks; it is empty until the first write initialises the pointer.      *)

\* Mutant: no block of its own for the remainder.
BlocksNoRemainder(size) ==
  LET total == Max({size \div BLOCK_SIZE, 1})
  IN [b \in 1 .. total |-> IF b < total THEN BLOCK_SIZE
                           ELSE size - BLOCK_SIZE * (total - 1)]

\* allocate_block: full blocks and a last one with the remainder, which is
\* nothing when size is a multiple of BLOCK_SIZE.
Blocks(size) ==
  LET total == IF size <= BLOCK_SIZE THEN 1
               ELSE size \div BLOCK_SIZE
                    + (IF size % BLOCK_SIZE > 0 THEN 1 ELSE 0)
  IN [b \in 1 .. total |-> IF b < total THEN BLOCK_SIZE
                                        ELSE size % BLOCK_SIZE]

\* The sum of the occupied counts of the blocks from i to j.
Occupied(blocks, i, j) == MapThenSumSet(LAMBDA b : blocks[b], i .. j)

\* write_data: what a write puts in the place of the file's blocks.
Written(size) == Blocks(Min({size, MAX_FILE_SIZE}))

\* file_size: blocks are counted by what they hold.
FileSize(f) ==
  LET blocks == files[f].block_list IN Occupied(blocks, 1, Len(blocks))

\* read_data: whole blocks are copied as long as there are any, then the
\* remainder out of the block reached.  The offset grows by the block stepped
\* to, not by the block copied.
CopiedBlocks(blocks, size) == Min({size \div BLOCK_SIZE, Len(blocks)})
TotalRead(blocks, size) ==
  LET k == CopiedBlocks(blocks, size) IN
  Occupied(blocks, 1, k) + (IF k < Len(blocks) THEN size % BLOCK_SIZE ELSE 0)
\* Mutant: the remainder is not added to the offset.
OffsetAfterNoRemainder(blocks, offset, size) ==
  LET k == CopiedBlocks(blocks, size) IN
  offset + Occupied(blocks, 2, Min({k + 1, Len(blocks)}))

OffsetAfter(blocks, offset, size) ==
  LET k == CopiedBlocks(blocks, size) IN
  IF k < Len(blocks)
  THEN offset + Occupied(blocks, 2, k + 1) + (size % BLOCK_SIZE)
  ELSE offset + Occupied(blocks, 2, k)

\* No NULL block is read, and the assertion at the end holds.
ReadOK(blocks, offset, size) ==
  /\ blocks # <<>>
  /\ CopiedBlocks(blocks, size) < Len(blocks) \/ size % BLOCK_SIZE = 0
  /\ OffsetAfter(blocks, offset, size) = TotalRead(blocks, size)

-----------------------------------------------------------------------------
(* Lookups.                                                                *)

\* find_file_struct: the first file of the list with that name; every file
\* before it is looked at.
Named(n) == {i \in DOMAIN file_list : /\ files[file_list[i]] # NULL
                                      /\ files[file_list[i]].name = n}
FindFile(n) == IF Named(n) = {} THEN NULL ELSE file_list[Min(Named(n))]
LookupOK(n) ==
  \A i \in DOMAIN file_list :
    (\A j \in Named(n) : i <= j) => files[file_list[i]] # NULL

\* Whether a descriptor number leads to a descriptor and a file.  Nothing ever
\* sets a slot to NULL, so the NULL tests of the code find nothing.
DescriptorOK(d) ==
  /\ d \in Slots /\ file_descriptors[d] # NULL
  /\ fds[file_descriptors[d]] # NULL
  /\ files[fds[file_descriptors[d]].file] # NULL

\* find_filedesc: the first descriptor of a file.
Holding(f) == {i \in 0 .. file_descriptor_count - 1 :
                 DescriptorOK(i) /\ fds[file_descriptors[i]].file = f}
FindFd(f) == file_descriptors[Min(Holding(f))]
HoldingOK(f) ==
  /\ Holding(f) # {}
  /\ \A i \in 0 .. Min(Holding(f)) : DescriptorOK(i)

TableOK == file_descriptor_count \in Slots

-----------------------------------------------------------------------------
(* ufs_open, by outcome.                                                   *)

AddDescriptor(x, file, offset, mode) ==
  /\ fds[x] = NULL /\ TableOK
  /\ fds' = [fds EXCEPT ![x] = [file |-> file, offset |-> offset,
                                mode |-> mode]]
  /\ file_descriptors' =
       [file_descriptors EXCEPT ![file_descriptor_count] = x]
  /\ file_descriptor_count' = file_descriptor_count + 1
  /\ UNCHANGED ufs_err_code

\* Mutant: the test for an existing file is missing.
OpenCreateAlways(n, mode, f, x) ==
  /\ LookupOK(n)
  /\ files[f] = NULL
  /\ files' = [files EXCEPT ![f] = [name |-> n, refs |-> 1,
                                    block_list |-> <<>>]]
  /\ file_list' = <<f>> \o file_list
  /\ AddDescriptor(x, f, 0, mode)

\* UFS_CREATE, and there is no such file.
OpenCreate(n, mode, f, x) ==
  /\ LookupOK(n) /\ FindFile(n) = NULL
  /\ files[f] = NULL
  /\ files' = [files EXCEPT ![f] = [name |-> n, refs |-> 1,
                                    block_list |-> <<>>]]
  /\ file_list' = <<f>> \o file_list
  /\ AddDescriptor(x, f, 0, mode)

OpenCreateExists(n) ==
  LookupOK(n) /\ FindFile(n) # NULL /\ Fail("NO_PERMISSION")

\* Mutant: ++file->refs on creation only.
OpenExistingUncounted(n, mode, x) ==
  LET f == FindFile(n) IN
  /\ LookupOK(n) /\ f # NULL /\ HoldingOK(f)
  /\ AddDescriptor(x, f, fds[FindFd(f)].offset, mode)
  /\ UNCHANGED <<files, file_list>>

\* No UFS_CREATE: the offset is that of the file's first descriptor.
OpenExisting(n, mode, x) ==
  LET f == FindFile(n) IN
  /\ LookupOK(n) /\ f # NULL /\ HoldingOK(f)
  /\ files' = [files EXCEPT ![f].refs = @ + 1]
  /\ AddDescriptor(x, f, fds[FindFd(f)].offset, mode)
  /\ UNCHANGED file_list

OpenMissing(n) ==
  LookupOK(n) /\ FindFile(n) = NULL /\ Fail("NO_FILE")

-----------------------------------------------------------------------------
(* ufs_write, ufs_read, ufs_close and ufs_delete.                          *)

Desc(d) == fds[file_descriptors[d]]
SetOffset(d, n) == fds' = [fds EXCEPT ![file_descriptors[d]].offset = n]

\* The new blocks replace the old ones, whatever the offset.
Write(d, size) ==
  LET blocks == Written(size) IN
  /\ DescriptorOK(d) /\ size > 0
  /\ Desc(d).mode \in {"WRITE_ONLY", "READ_WRITE"}
  /\ files' = [files EXCEPT ![Desc(d).file].block_list = blocks]
  /\ SetOffset(d, Occupied(blocks, 1, Len(blocks)))
  /\ UNCHANGED <<file_list, file_descriptors, file_descriptor_count,
                 ufs_err_code>>

Read(d, size) ==
  LET blocks == files[Desc(d).file].block_list IN
  /\ DescriptorOK(d)
  /\ Desc(d).mode \in {"READ_ONLY", "READ_WRITE"}
  /\ ReadOK(blocks, Desc(d).offset, size)
  /\ SetOffset(d, TotalRead(blocks, size))
  /\ UNCHANGED <<files, file_list, file_descriptors, file_descriptor_count,
                 ufs_err_code>>

\* The mode does not allow the call.
Refused(d) ==
  /\ DescriptorOK(d) /\ Desc(d).mode # "READ_WRITE"
  /\ Fail("NO_PERMISSION")

\* deallocate_block frees the first block, with which all the others were
\* allocated, if a write has set the pointer to it.
DeallocateOK(f) == files[f].block_list # <<>>

\* Mutant: every close frees the file.
CloseFreesAlways(d) ==
  LET f == Desc(d).file IN
  /\ DescriptorOK(d)
  /\ files[f].refs = 1 => DeallocateOK(f)
  /\ files' = [files EXCEPT ![f] = NULL]
  /\ fds' = [fds EXCEPT ![file_descriptors[d]] = NULL]
  /\ file_descriptor_count' = file_descriptor_count - 1
  /\ UNCHANGED <<file_list, file_descriptors, ufs_err_code>>

\* The last descriptor of a file frees it; the file stays in file_list, and
\* the slot keeps its pointer.
Close(d) ==
  LET f == Desc(d).file IN
  /\ DescriptorOK(d)
  /\ files[f].refs = 1 => DeallocateOK(f)
  /\ files' = IF files[f].refs = 1 THEN [files EXCEPT ![f] = NULL]
                                   ELSE [files EXCEPT ![f].refs = @ - 1]
  /\ fds' = [fds EXCEPT ![file_descriptors[d]] = NULL]
  /\ file_descriptor_count' = file_descriptor_count - 1
  /\ UNCHANGED <<file_list, file_descriptors, ufs_err_code>>

\* Mutant: the blocks go with the name, whoever has the file open.
DeleteWithBlocks(n) ==
  /\ LookupOK(n) /\ FindFile(n) # NULL
  /\ files' = [files EXCEPT ![FindFile(n)].name = NULL,
                            ![FindFile(n)].block_list = <<>>]
  /\ UNCHANGED <<file_list, fds, file_descriptors, file_descriptor_count,
                 ufs_err_code>>

\* The file loses its name; without one it is not found again.
Delete(n) ==
  /\ LookupOK(n) /\ FindFile(n) # NULL
  /\ files' = [files EXCEPT ![FindFile(n)].name = NULL]
  /\ UNCHANGED <<file_list, fds, file_descriptors, file_descriptor_count,
                 ufs_err_code>>
=============================================================================
