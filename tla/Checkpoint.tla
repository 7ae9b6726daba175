----------------------------- MODULE Checkpoint -----------------------------
(***************************************************************************)
(* CheckpointControl: the processes of a job write their registered        *)
(* objects into one file, ordered by rank, and the sizes of the pieces     *)
(* into another one.  Both are written by collective calls, in which a     *)
(* process does nothing else, so that a call is a step of the job, and the *)
(* job may fail between any two and in the middle of one.  What is on disk *)
(* stays; the next job may have another number of processes.               *)
(*                                                                         *)
(* Files and buffers are sequences of cells: an identifier with its        *)
(* length, the size of an object, or one of its bytes.                     *)
(***************************************************************************)
EXTENDS Integers, SequencesExt

CONSTANTS Sizes,       \* bound: numbers of processes that a job may have
          Id,          \* identifiers
          MayHold,     \* bound: MayHold[p][i], what object i of process p may hold, if it has one
          File,        \* names of checkpoints
          Compressed,  \* those with the extension zcp
          Zlib,        \* whether the library is there
          Streaming,   \* processes that use streams
          Saves,       \* bound: calls of save
          Loads        \* bound: calls of load

ASSUME CheckpointAssumption ==
  /\ IsFiniteSet(Sizes) /\ Sizes # {} /\ Sizes \subseteq Nat \ {0}
  /\ \A p \in 1 .. Max(Sizes) : \A i \in DOMAIN MayHold[p] :
       i \in Id /\ MayHold[p][i] # {} /\ \A v \in MayHold[p][i] : v \in Seq(Nat)
  /\ Compressed \subseteq File
  /\ Zlib \in BOOLEAN
  /\ ~Zlib => Compressed = {}
  /\ Saves \in Nat /\ Loads \in Nat

Proc == 1 .. Max(Sizes)

VARIABLES size,        \* number of processes of the job
          object,      \* object[p][i]: what it holds
          registered,  \* _checkpointable_by_identifier
          input,       \* _input_array
          offset,      \* _offset_by_identifier
          stream,      \* a BinaryStream, a new one for each save
          job,         \* it runs, or is at some point of save(filename)
          data,        \* the files .cp and .zcp
          sizes,       \* the files .scp and .szcp: two sizes per process, equal in a .scp
          saves,       \* number of saves
          loads,       \* number of loads
          saved,       \* history: what was saved last, and whether in full
          streamed,    \* history: what went into the stream
          provenance   \* history: what was put where the input comes from

memory == <<object, registered, input, offset, stream, streamed, provenance>>
files == <<data, sizes, saved>>
jobVars == <<size, memory, job, files, saves, loads>>

Nothing == [kind |-> "nothing", objects |-> <<>>]
NoInput == [loaded |-> FALSE, cells |-> <<>>]
Input(cells) == [loaded |-> TRUE, cells |-> cells]

----------------------------------------------------------------------------
(* The layout of a buffer.                                                 *)

Junk == <<"junk", 0>>
Bytes(v) == [k \in 1 .. Len(v) |-> <<"byte", v[k]>>]

\* Slip: the size of an object counts its own cell.
EntryWithCell(i, v) == <<<<"id", i>>, <<"size", Len(v) + 1>>>> \o v

Entry(i, v) == <<<<"id", i>>, <<"size", Len(v)>>>> \o v

\* _collect_checkpoint_data(): the registered objects in the order of the map.
Collect(p) ==
  LET ids == SetToSeq(registered[p])
  IN  FlattenSeq([k \in 1 .. Len(ids) |-> Entry(ids[k], object[p][ids[k]])])

\* A map with one more entry, if it has none for i.
Inserted(at, i, o) == [j \in DOMAIN at \cup {i} |-> IF j \in DOMAIN at THEN at[j] ELSE o]

\* Where the sizes of the objects are, as _restore_checkpoint_data() finds them.  What
\* it makes of anything else than a buffer is undefined; it has then found what is
\* before.
Parse(cells) ==
  LET from[k \in 1 .. Len(cells) + 1] ==
        IF k >= Len(cells) THEN <<>>
        ELSE IF cells[k][1] # "id" \/ cells[k + 1][1] # "size" THEN <<>>
        ELSE LET next == k + 2 + cells[k + 1][2]
                 rest == IF next > Len(cells) THEN <<>> ELSE from[next]
             IN  Inserted(rest, cells[k][2], k + 1)
  IN  from[1]

\* The object whose size is in cell o; what is beyond the end is undefined.
Extract(cells, o) ==
  [k \in 1 .. cells[o][2] |-> IF o + k <= Len(cells) THEN cells[o + k] ELSE Junk]

Extracts(cells, at) == [i \in DOMAIN at |-> Extract(cells, at[i])]

----------------------------------------------------------------------------
(* zlib: a compressed buffer is shorter or longer than the buffer itself,  *)
(* and known by all of its parts.                                          *)

ZLen(cells) == Len(cells) \div 2 + 1
Compress(cells) == [k \in 1 .. ZLen(cells) |-> <<"zip", <<cells, k>>>>]

\* The first part tells the buffer that the others must be parts of.
CanUncompress(cells, limit) ==
  /\ cells # <<>> /\ cells[1][1] = "zip"
  /\ LET whole == cells[1][2][1]
     IN  Len(whole) <= limit /\ IsPrefix(Compress(whole), cells)

Uncompress(cells, limit) ==
  IF CanUncompress(cells, limit) THEN cells[1][2][1] ELSE [k \in 1 .. limit |-> Junk]

\* Slip: the status is not looked at.
UncompressesAnyhow(cells, limit) == TRUE

\* XASSERTM(d_status == Z_OK, ...)
Uncompresses(cells, limit) == CanUncompress(cells, limit)

----------------------------------------------------------------------------
(* Files, written and read in the order of the ranks.                      *)

Piece(f, p) == IF f \in Compressed THEN Compress(Collect(p)) ELSE Collect(p)

Pieces(f) == [p \in 1 .. size |-> Piece(f, p)]
SizePieces(f) == [p \in 1 .. size |-> << <<Len(Collect(p)), Len(Piece(f, p))>> >>]

\* What is in a file when only the processes S have written their pieces into it;
\* gaps are holes.
Written(pieces, hole, S) ==
  FlattenSeq([p \in 1 .. Max(S \cup {0}) |->
                IF p \in S THEN pieces[p] ELSE [k \in 1 .. Len(pieces[p]) |-> hole]])

\* Slip: the file is not truncated.
InPlace(old, new) == new \o SubSeq(old, Len(new) + 1, Len(old))

\* What a write makes of the old contents.
Replace(old, new) == new

\* What process p reads when all read according to the sizes in s.
ReadOrdered(d, s, p) ==
  LET first == SumFunctionOnSet([q \in 1 .. size |-> s[q][2]], 1 .. p - 1)
  IN  [k \in 1 .. s[p][2] |-> IF first + k <= Len(d) THEN d[first + k] ELSE Junk]

\* The buffer that process p has after it has read f.
Loaded(f, p) ==
  LET cells == ReadOrdered(data[f], sizes[f], p)
  IN  IF f \in Compressed THEN Uncompress(cells, sizes[f][p][1]) ELSE cells

----------------------------------------------------------------------------
(* A job.                                                                  *)

NewObjects ==
  [p \in Proc |-> [i \in DOMAIN MayHold[p] |-> Bytes(CHOOSE v \in MayHold[p][i] : TRUE)]]

JobInit ==
  /\ size \in Sizes
  /\ object = NewObjects
  /\ registered = [p \in Proc |-> {}]
  /\ input = [p \in Proc |-> NoInput]
  /\ offset = [p \in Proc |-> <<>>]
  /\ stream = [p \in Proc |-> NoInput]
  /\ streamed = [p \in Proc |-> Nothing]
  /\ provenance = [p \in Proc |-> Nothing]
  /\ job = [at |-> "run", file |-> "none"]
  /\ data = [f \in File |-> <<>>]
  /\ sizes = [f \in File |-> <<>>]
  /\ saved = [f \in File |-> [whole |-> FALSE, size |-> 0, objects |-> <<>>]]
  /\ saves = 0 /\ loads = 0

\* The job ends or fails, which a failed assertion makes it do, and another one starts.
Restart ==
  /\ size' \in Sizes
  /\ object' = NewObjects
  /\ registered' = [p \in Proc |-> {}]
  /\ input' = [p \in Proc |-> NoInput]
  /\ offset' = [p \in Proc |-> <<>>]
  /\ stream' = [p \in Proc |-> NoInput]
  /\ streamed' = [p \in Proc |-> Nothing]
  /\ provenance' = [p \in Proc |-> Nothing]
  /\ job' = [at |-> "run", file |-> "none"]
  /\ UNCHANGED <<saved, saves, loads>>

Running(p) == job.at = "run" /\ p <= size

Snapshot(p) == [kind |-> "checkpoint", objects |-> [i \in registered[p] |-> object[p][i]]]

\* The program computes.
Compute(p, i) ==
  /\ Running(p) /\ i \in DOMAIN object[p]
  /\ \E v \in MayHold[p][i] : object' = [object EXCEPT ![p][i] = Bytes(v)]
  /\ UNCHANGED <<size, registered, input, offset, stream, streamed, provenance, job, files, saves, loads>>

AddObject(p, i) ==
  /\ Running(p) /\ i \in DOMAIN object[p]
  /\ i \notin registered[p]
  /\ registered' = [registered EXCEPT ![p] = @ \cup {i}]
  /\ UNCHANGED <<size, object, input, offset, stream, streamed, provenance, job, files, saves, loads>>

RemoveObject(p, i) ==
  /\ Running(p) /\ i \in registered[p]
  /\ registered' = [registered EXCEPT ![p] = @ \ {i}]
  /\ UNCHANGED <<size, object, input, offset, stream, streamed, provenance, job, files, saves, loads>>

\* If the object is to be added and is there already, the job fails.
RestoreObject(p, i, add) ==
  /\ Running(p) /\ i \in DOMAIN object[p]
  /\ input[p].loaded /\ i \in DOMAIN offset[p]
  /\ add => i \notin registered[p]
  /\ object' = [object EXCEPT ![p][i] = Extract(input[p].cells, offset[p][i])]
  /\ registered' = IF add THEN [registered EXCEPT ![p] = @ \cup {i}] ELSE registered
  /\ UNCHANGED <<size, input, offset, stream, streamed, provenance, job, files, saves, loads>>

Forget(p) ==
  /\ input' = [input EXCEPT ![p] = NoInput]
  /\ offset' = [offset EXCEPT ![p] = <<>>]

ClearInput(p) ==
  /\ Running(p)
  /\ Forget(p)
  /\ provenance' = [provenance EXCEPT ![p] = Nothing]
  /\ UNCHANGED <<size, object, registered, stream, streamed, job, files, saves, loads>>

----------------------------------------------------------------------------
(* Streams.                                                                *)

SaveStream(p) ==
  /\ Running(p) /\ p \in Streaming /\ saves < Saves
  /\ saves' = saves + 1
  /\ stream' = [stream EXCEPT ![p] = Input(Collect(p))]
  /\ streamed' = [streamed EXCEPT ![p] = Snapshot(p)]
  /\ UNCHANGED <<size, object, registered, input, offset, provenance, job, files, loads>>

\* Without zlib the last byte is not copied.
FromStream(cells) ==
  IF Zlib THEN Uncompress(Compress(cells), Len(cells))
  ELSE [k \in 1 .. Len(cells) |-> IF k < Len(cells) THEN cells[k] ELSE Junk]

LoadStream(p) ==
  /\ Running(p) /\ stream[p].loaded /\ loads < Loads
  /\ loads' = loads + 1
  /\ ~input[p].loaded
  /\ \E cells \in {FromStream(stream[p].cells)} :
       /\ input' = [input EXCEPT ![p] = Input(cells)]
       /\ offset' = [offset EXCEPT ![p] = Parse(cells)]
  /\ provenance' = [provenance EXCEPT ![p] = streamed[p]]
  /\ UNCHANGED <<size, object, registered, stream, streamed, job, files, saves>>

----------------------------------------------------------------------------
(* Files.  Open is collective: nothing is written until all processes have *)
(* collected their data and called.                                        *)

JobAt(point, f) == job.at = point /\ job.file = f
Go(point, f) == job' = [at |-> point, file |-> f]

\* The data file is truncated.
Save(f) ==
  /\ job.at = "run" /\ saves < Saves
  /\ saves' = saves + 1
  /\ data' = [data EXCEPT ![f] = Replace(@, <<>>)]
  /\ saved' = [saved EXCEPT ![f] = [whole |-> FALSE, size |-> size,
                                    objects |-> [p \in 1 .. size |-> Snapshot(p).objects]]]
  /\ Go("data", f)
  /\ UNCHANGED <<size, memory, sizes, loads>>

WriteData(f) ==
  /\ JobAt("data", f)
  /\ data' = [data EXCEPT ![f] = Replace(@, Written(Pieces(f), Junk, 1 .. size))]
  /\ Go("between", f)
  /\ UNCHANGED <<size, memory, sizes, saved, saves, loads>>

TruncateSizes(f) ==
  /\ JobAt("between", f)
  /\ sizes' = [sizes EXCEPT ![f] = Replace(@, <<>>)]
  /\ Go("sizes", f)
  /\ UNCHANGED <<size, memory, data, saved, saves, loads>>

WriteSizes(f) ==
  /\ JobAt("sizes", f)
  /\ sizes' = [sizes EXCEPT ![f] = Replace(@, Written(SizePieces(f), <<0, 0>>, 1 .. size))]
  /\ saved' = [saved EXCEPT ![f].whole = TRUE]
  /\ Go("run", "none")
  /\ UNCHANGED <<size, memory, data, saves, loads>>

\* The job fails while its processes write: the pieces of some are on disk.
JobFails(S) ==
  /\ Restart
  /\ CASE job.at = "data" ->
            /\ data' = [data EXCEPT ![job.file] = Replace(@, Written(Pieces(job.file), Junk, S))]
            /\ UNCHANGED sizes
       [] job.at = "sizes" ->
            /\ sizes' = [sizes EXCEPT ![job.file] =
                           Replace(@, Written(SizePieces(job.file), <<0, 0>>, S))]
            /\ UNCHANGED data
       [] OTHER -> S = {} /\ UNCHANGED <<data, sizes>>

\* What the input of process p is made of; of a torn file little is known, but that
\* a compressed one holds what was saved there last.  (Fewer processes than have saved
\* may find pieces of others where old sizes lead them.)
OriginOf(f, p) ==
  IF saved[f].whole THEN [kind |-> "checkpoint", objects |-> saved[f].objects[p]]
  ELSE IF f \in Compressed /\ saved[f].size <= size /\ p <= saved[f].size
  THEN [kind |-> "torn", objects |-> saved[f].objects[p]]
  ELSE [kind |-> "torn", objects |-> <<>>]

Load(f) ==
  /\ job.at = "run" /\ loads < Loads
  /\ \A p \in 1 .. size : ~input[p].loaded
  /\ Len(sizes[f]) = size
  /\ f \in Compressed => \A p \in 1 .. size :
       Uncompresses(ReadOrdered(data[f], sizes[f], p), sizes[f][p][1])
  /\ \E cells \in {[p \in 1 .. size |-> Loaded(f, p)]} :
       /\ input' = [p \in Proc |-> IF p <= size THEN Input(cells[p]) ELSE NoInput]
       /\ offset' = [p \in Proc |-> IF p <= size THEN Parse(cells[p]) ELSE <<>>]
  /\ provenance' = [p \in Proc |-> IF p <= size THEN OriginOf(f, p) ELSE Nothing]
  /\ loads' = loads + 1
  /\ UNCHANGED <<size, object, registered, stream, streamed, job, files, saves>>

JobNext ==
  \/ \E p \in Proc : ClearInput(p) \/ SaveStream(p) \/ LoadStream(p)
  \/ \E p \in Proc, i \in Id : Compute(p, i) \/ AddObject(p, i) \/ RemoveObject(p, i)
  \/ \E p \in Proc, i \in Id, add \in BOOLEAN : RestoreObject(p, i, add)
  \/ \E f \in File : Save(f) \/ WriteData(f) \/ TruncateSizes(f) \/ WriteSizes(f) \/ Load(f)
  \/ \E S \in SUBSET (1 .. size) : JobFails(S)

JobSpec == JobInit /\ [][JobNext]_jobVars

----------------------------------------------------------------------------
(* Properties.                                                             *)

Contents(p) == Extracts(input[p].cells, offset[p])

\* What has been saved in full can be read by as many processes, whatever the job has
\* done since, or has begun to do with other files.
SavedStays ==
  \A f \in File :
    saved[f].whole /\ saved[f].size = size =>
      /\ Len(sizes[f]) = size
      /\ \A p \in 1 .. size :
           LET cells == ReadOrdered(data[f], sizes[f], p)
               buffer == Loaded(f, p)
           IN  /\ f \in Compressed => CanUncompress(cells, sizes[f][p][1])
               /\ Extracts(buffer, Parse(buffer)) = saved[f].objects[p]

\* A compressed checkpoint that was not saved in full is refused, or read as if it was,
\* when at least as many processes read as have saved: all pieces are checked.
CompressedIsWhole ==
  \A p \in Proc :
    provenance[p].kind = "torn" /\ provenance[p].objects # <<>> => Contents(p) = provenance[p].objects

\* The checkpoint files do what CheckpointStore asks for.
Store == INSTANCE CheckpointStore WITH
  own <- streamed,
  disk <- [f \in File |-> IF saved[f].whole
                          THEN [size |-> saved[f].size, objects |-> saved[f].objects]
                          ELSE [size |-> 0, objects |-> <<>>]],
  loaded <- [p \in Proc |-> CASE provenance[p].kind = "checkpoint" ->
                                   [kind |-> "checkpoint", objects |-> Contents(p)]
                              [] provenance[p].kind = "torn" ->
                                   [kind |-> "something", objects |-> <<>>]
                              [] OTHER -> provenance[p]]

ImplementsStore == Store!Spec
=============================================================================
