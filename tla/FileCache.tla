----------------------------- MODULE FileCache ------------------------------
(***************************************************************************)
(* The cache of files that are read whole (claim(), reclaim() and          *)
(* unclaim() of src/src/interf.cc): inventories, rules, texts.  A file is  *)
(* read again when its time stamp, which is a second, has changed since it *)
(* was read.                                                               *)
(***************************************************************************)
EXTENDS Integers, FiniteSets, Sequences

CONSTANTS
  FileName,
  Reader,        \* whoever claims files: synthesizers, voices, parsers
  Second,        \* when files are written, as get_timestamp() tells it
  Concurrent,    \* whether files are written while one is being read
  MaxWrites      \* bound

ASSUME CacheAssumption ==
  IsFiniteSet(Reader) /\ Second \subseteq Nat \ {0} /\ Concurrent \in BOOLEAN /\ MaxWrites \in Nat

VARIABLES
  written,   \* the second of every write of a file
  disk,      \* which of the writes a file is as it is now, or 0 if it is not there
  file_cache,\* [data, timestamp, ref_count] of files that are cached; data is what disk was
  claimed,   \* the files that readers have claimed, with what they got
  reading    \* a file that has been read but is not in the cache yet

cacheVars == <<written, disk, file_cache, claimed, reading>>

Absent == 0
Uncached == [data |-> 0, timestamp |-> 0, ref_count |-> -1]
Nobody == [reader |-> {}, file |-> {}, data |-> 0]

CacheInit ==
  /\ \E second \in Second : written = <<second>>
  /\ disk = [f \in FileName |-> 1]
  /\ file_cache = [f \in FileName |-> Uncached]
  /\ claimed = [r \in Reader |-> [f \in FileName |-> 0]]
  /\ reading = Nobody

get_timestamp(f) == IF disk[f] = Absent THEN 0 ELSE written[disk[f]]
Cached(f) == file_cache[f].ref_count >= 0
Idle == reading = Nobody

-----------------------------------------------------------------------------
(* Claims.                                                                 *)

\* A hit: the file is read again if it has changed; when it is gone its new time stamp is kept
\* but the claim fails.
\* Mutant: it is never read again.
NotReread(f) == file_cache[f]
Reread(f) ==
  IF get_timestamp(f) = file_cache[f].timestamp THEN file_cache[f]
  ELSE [file_cache[f] EXCEPT !.timestamp = get_timestamp(f), !.data = IF disk[f] = Absent THEN @ ELSE disk[f]]
Gone(f) == disk[f] = Absent /\ file_cache[f].timestamp # 0

Hit(r, f) ==
  /\ Idle /\ Cached(f) /\ claimed[r][f] = 0
  /\ IF Gone(f)
     THEN file_cache' = [file_cache EXCEPT ![f] = Reread(f)] /\ UNCHANGED claimed
     ELSE /\ file_cache' = [file_cache EXCEPT ![f] = [Reread(f) EXCEPT !.ref_count = @ + 1]]
          /\ claimed' = [claimed EXCEPT ![r][f] = Reread(f).data]
  /\ UNCHANGED <<written, disk, reading>>

\* A miss: the file is read, and then its time stamp is taken.
Miss(r, f) ==
  /\ Idle /\ ~Cached(f) /\ disk[f] # Absent
  /\ reading' = [reader |-> {r}, file |-> {f}, data |-> disk[f]]
  /\ UNCHANGED <<written, disk, file_cache, claimed>>

CacheRead(r, f) ==
  /\ reading.reader = {r} /\ reading.file = {f}
  /\ file_cache' = [file_cache EXCEPT ![f] = [data |-> reading.data, timestamp |-> get_timestamp(f), ref_count |-> 1]]
  /\ claimed' = [claimed EXCEPT ![r][f] = reading.data]
  /\ reading' = Nobody
  /\ UNCHANGED <<written, disk>>

\* Mutant: as if nobody else had it.
Forgotten(f, lowmemory) == Uncached
Released(f, lowmemory) ==
  IF file_cache[f].ref_count = 1 /\ lowmemory THEN Uncached
  ELSE [file_cache[f] EXCEPT !.ref_count = @ - 1]

\* cfg->lowmemory is an option that every session may set for itself.
unclaim(r, f) ==
  /\ Idle /\ claimed[r][f] # 0
  /\ \E lowmemory \in BOOLEAN : file_cache' = [file_cache EXCEPT ![f] = Released(f, lowmemory)]
  /\ claimed' = [claimed EXCEPT ![r][f] = 0]
  /\ UNCHANGED <<written, disk, reading>>

\* Somebody else changes or removes a file.
Write(f) ==
  /\ Len(written) < MaxWrites /\ (Idle \/ Concurrent)
  /\ \E second \in Second : written' = Append(written, second)
  /\ disk' = [disk EXCEPT ![f] = Len(written) + 1]
  /\ UNCHANGED <<file_cache, claimed, reading>>

Unlink(f) ==
  /\ disk[f] # Absent /\ (Idle \/ Concurrent)
  /\ disk' = [disk EXCEPT ![f] = Absent]
  /\ UNCHANGED <<written, file_cache, claimed, reading>>

CacheNext == \E f \in FileName :
  \/ Write(f) \/ Unlink(f)
  \/ \E r \in Reader : Hit(r, f) \/ Miss(r, f) \/ CacheRead(r, f) \/ unclaim(r, f)

CacheSpec == CacheInit /\ [][CacheNext]_cacheVars

-----------------------------------------------------------------------------
\* The count of a file is that of the readers that have it: file::~file() never finds one
\* that is still claimed.
Claims == \A f \in FileName :
  Idle => Cardinality({r \in Reader : claimed[r][f] # 0}) =
            IF Cached(f) THEN file_cache[f].ref_count ELSE 0

\* Whoever claims a file that is there gets what it holds at that moment, or held at some time in
\* the second in which it was last written: claim() and reclaim() miss no write but one in the
\* second of the data that they have (if nothing is written between a file's being read and its
\* time stamp being taken).
Fresh == [][\A r \in Reader, f \in FileName :
  claimed[r][f] = 0 /\ claimed'[r][f] # 0 /\ disk[f] # Absent =>
    written[claimed'[r][f]] = written[disk[f]]]_cacheVars
=============================================================================
