---------------------------- MODULE FilesProofs -----------------------------
(***************************************************************************)
(* Proofs about what is read from files.  The file cache: for all files,   *)
(* readers and changes of files.  The internal encoding: for all charsets  *)
(* and texts, as long as there are codes for their characters.  The        *)
(* configuration: for all languages, voices, files and arguments.          *)
(***************************************************************************)
EXTENDS FileCache, Encoding, Startup, FiniteSetTheorems, FunctionTheorems, SequenceTheorems, WellFoundedInduction, TLAPS

Holders(f) == {r \in Reader : claimed[r][f] # 0}

CacheTypeOK ==
  /\ disk \in [FileName -> 0..Len(written)] /\ written \in Seq(Nat \ {0}) /\ written # <<>>
  /\ file_cache \in [FileName -> [data : Nat, timestamp : Nat, ref_count : Int]]
  /\ claimed \in [Reader -> [FileName -> Nat]]
  /\ reading \in [reader : SUBSET Reader, file : SUBSET FileName, data : Nat]

\* What is cached has been read, and is counted.
CountedInv ==
  \A f \in FileName :
    /\ Cardinality(Holders(f)) = IF Cached(f) THEN file_cache[f].ref_count ELSE 0
    /\ Cached(f) => file_cache[f].data # 0

\* A file that is being read is not in the cache yet.
ReadingInv == ~Idle => reading.data # 0 /\ \A f \in reading.file : ~Cached(f)

CacheInv == CacheTypeOK /\ CountedInv /\ ReadingInv

-----------------------------------------------------------------------------
LEMMA HoldersFinite == ASSUME CacheAssumption, NEW f PROVE IsFiniteSet(Holders(f))
  BY FS_Subset DEF CacheAssumption, Holders

\* One reader more, or one less.
LEMMA OneMore ==
  ASSUME CacheAssumption, CacheTypeOK, NEW r \in Reader, NEW f \in FileName, NEW d \in Nat \ {0},
         claimed[r][f] = 0, claimed' = [claimed EXCEPT ![r][f] = d]
  PROVE  /\ claimed' \in [Reader -> [FileName -> Nat]]
         /\ Cardinality(Holders(f)') = Cardinality(Holders(f)) + 1
         /\ \A g \in FileName \ {f} : Holders(g)' = Holders(g)
<1>1. Holders(f)' = Holders(f) \cup {r} /\ r \notin Holders(f)
  BY DEF Holders, CacheTypeOK
<1>2. \A g \in FileName \ {f} : Holders(g)' = Holders(g)
  BY DEF Holders, CacheTypeOK
<1>3. claimed' \in [Reader -> [FileName -> Nat]]
  BY DEF CacheTypeOK
<1>4. IsFiniteSet(Holders(f))
  BY HoldersFinite, Zenon
<1>5. Cardinality(Holders(f) \cup {r}) = Cardinality(Holders(f)) + 1
  <2> DEFINE H == Holders(f)
  <2>1. IsFiniteSet(H) /\ r \notin H
    BY <1>1, <1>4
  <2> HIDE DEF H
  <2>2. Cardinality(H \cup {r}) = Cardinality(H) + 1
    BY <2>1, FS_AddElement
  <2> QED
    BY <2>2 DEF H
<1>6. Cardinality(Holders(f)') = Cardinality(Holders(f)) + 1
  BY <1>1, <1>5
<1> QED
  BY <1>2, <1>3, <1>6

LEMMA OneLess ==
  ASSUME CacheAssumption, CacheTypeOK, NEW r \in Reader, NEW f \in FileName,
         claimed[r][f] # 0, claimed' = [claimed EXCEPT ![r][f] = 0]
  PROVE  /\ claimed' \in [Reader -> [FileName -> Nat]]
         /\ Cardinality(Holders(f)) \in Nat \ {0}
         /\ Cardinality(Holders(f)') = Cardinality(Holders(f)) - 1
         /\ \A g \in FileName \ {f} : Holders(g)' = Holders(g)
<1>1. Holders(f)' = Holders(f) \ {r} /\ r \in Holders(f)
  BY DEF Holders, CacheTypeOK
<1>2. \A g \in FileName \ {f} : Holders(g)' = Holders(g)
  BY DEF Holders, CacheTypeOK
<1>3. claimed' \in [Reader -> [FileName -> Nat]]
  BY DEF CacheTypeOK
<1>4. Cardinality(Holders(f)) \in Nat /\ Cardinality(Holders(f)) # 0
  BY <1>1, HoldersFinite, FS_CardinalityType, FS_EmptySet
<1>5. IsFiniteSet(Holders(f))
  BY HoldersFinite, Zenon
<1>6. Cardinality(Holders(f) \ {r}) = Cardinality(Holders(f)) - 1
  <2> DEFINE H == Holders(f)
  <2>1. IsFiniteSet(H) /\ r \in H
    BY <1>1, <1>5
  <2> HIDE DEF H
  <2>2. Cardinality(H \ {r}) = Cardinality(H) - 1
    BY <2>1, FS_RemoveElement
  <2> QED
    BY <2>2 DEF H
<1>7. Cardinality(Holders(f)') = Cardinality(Holders(f)) - 1
  BY <1>1, <1>6
<1> QED
  BY <1>2, <1>3, <1>4, <1>7

-----------------------------------------------------------------------------
LEMMA CacheInvInit == ASSUME CacheAssumption, CacheInit PROVE CacheInv
<1>1. \A f \in FileName : Holders(f) = {} /\ ~Cached(f)
  BY DEF CacheInit, Holders, Cached, Uncached
<1>2. CacheTypeOK
  <2>1. PICK second \in Nat \ {0} : written = <<second>>
    BY DEF CacheInit, CacheAssumption
  <2>2. written \in Seq(Nat \ {0}) /\ Len(written) = 1 /\ written # <<>>
    BY <2>1
  <2>3. 1 \in 0..Len(written)
    BY <2>2
  <2> QED
    BY <2>2, <2>3 DEF CacheInit, CacheTypeOK, Uncached, Nobody
<1> QED
  BY <1>1, <1>2, FS_EmptySet DEF CacheInit, CacheInv, CountedInv, ReadingInv, Idle

\* A file that is there has a time stamp, one that is not there has none.
LEMMA TimeStamps ==
  ASSUME CacheTypeOK, NEW f \in FileName
  PROVE  /\ Len(written) \in Nat /\ disk[f] \in Nat
         /\ get_timestamp(f) \in Nat /\ (get_timestamp(f) = 0 <=> disk[f] = Absent)
<1>1. Len(written) \in Nat /\ disk[f] \in 0..Len(written) /\ disk[f] \in Nat
  BY LenProperties DEF CacheTypeOK
<1>2. CASE disk[f] = Absent
  BY <1>1, <1>2 DEF get_timestamp
<1>3. CASE disk[f] # Absent
  <2>1. disk[f] \in 1..Len(written)
    BY <1>1, <1>3 DEF Absent
  <2>2. written[disk[f]] \in Nat \ {0}
    BY <2>1, ElementOfSeq DEF CacheTypeOK
  <2> QED
    BY <1>1, <1>3, <2>2 DEF get_timestamp
<1> QED
  BY <1>2, <1>3

\* What a hit finds in the cache.
LEMMA RereadFacts ==
  ASSUME CacheTypeOK, NEW f \in FileName
  PROVE  /\ Reread(f) \in [data : Nat, timestamp : Nat, ref_count : Int]
         /\ Reread(f).ref_count = file_cache[f].ref_count
         /\ Reread(f).timestamp = get_timestamp(f)
         /\ Reread(f).data =
              IF get_timestamp(f) \in {file_cache[f].timestamp, 0} THEN file_cache[f].data ELSE disk[f]
<1>1. /\ file_cache[f] \in [data : Nat, timestamp : Nat, ref_count : Int] /\ disk[f] \in Nat
      /\ get_timestamp(f) \in Nat /\ (get_timestamp(f) = 0 <=> disk[f] = Absent)
  BY TimeStamps DEF CacheTypeOK
<1>2. CASE get_timestamp(f) = file_cache[f].timestamp
  BY <1>1, <1>2 DEF Reread
<1>3. CASE get_timestamp(f) # file_cache[f].timestamp /\ disk[f] = Absent
  BY <1>1, <1>3 DEF Reread
<1>4. CASE get_timestamp(f) # file_cache[f].timestamp /\ disk[f] # Absent
  BY <1>1, <1>4 DEF Reread
<1> QED
  BY <1>2, <1>3, <1>4

LEMMA HitPreserves ==
  ASSUME CacheAssumption, CacheInv, NEW r \in Reader, NEW f \in FileName, Hit(r, f)
  PROVE  CacheInv'
<1> USE DEF CacheInv
<1>1. /\ Reread(f) \in [data : Nat, timestamp : Nat, ref_count : Int]
      /\ Reread(f).ref_count = file_cache[f].ref_count /\ Reread(f).data # 0
  BY RereadFacts, TimeStamps DEF Hit, CountedInv, Absent
<1>2. CASE Gone(f)
  <2>1. file_cache' = [file_cache EXCEPT ![f] = Reread(f)] /\ claimed' = claimed
        /\ disk' = disk /\ reading' = reading /\ written' = written /\ Idle
    BY <1>2 DEF Hit
  <2>2. CacheTypeOK'
    BY <1>1, <2>1 DEF CacheTypeOK
  <2>3. \A g \in FileName : /\ file_cache'[g].ref_count = file_cache[g].ref_count
                            /\ Cached(g)' => file_cache'[g].data # 0
    BY <1>1, <2>1 DEF CacheTypeOK, Cached, CountedInv
  <2>4. \A g \in FileName : Holders(g)' = Holders(g)
    BY <2>1 DEF Holders
  <2> QED
    BY <2>1, <2>2, <2>3, <2>4 DEF CountedInv, ReadingInv, Idle, Cached
<1>3. CASE ~Gone(f)
  <2> DEFINE new == [Reread(f) EXCEPT !.ref_count = @ + 1]
  <2>1. file_cache' = [file_cache EXCEPT ![f] = new]
        /\ claimed' = [claimed EXCEPT ![r][f] = Reread(f).data]
        /\ disk' = disk /\ reading' = reading /\ written' = written
        /\ Idle /\ Cached(f) /\ claimed[r][f] = 0
    BY <1>3 DEF Hit
  <2>2. new \in [data : Nat, timestamp : Nat, ref_count : Int]
        /\ new.data # 0 /\ new.ref_count = file_cache[f].ref_count + 1
    BY <1>1
  <2> HIDE DEF new
  <2>3. /\ claimed' \in [Reader -> [FileName -> Nat]]
        /\ Cardinality(Holders(f)') = Cardinality(Holders(f)) + 1
        /\ \A g \in FileName \ {f} : Holders(g)' = Holders(g)
    BY <1>1, <2>1, OneMore
  <2>4. CacheTypeOK'
    BY <2>1, <2>2, <2>3 DEF CacheTypeOK
  <2>5. file_cache'[f] = new /\ \A g \in FileName \ {f} : file_cache'[g] = file_cache[g]
    BY <2>1 DEF CacheTypeOK
  <2>6. file_cache[f].ref_count \in Int
    BY DEF CacheTypeOK
  <2>7. Cached(f)' /\ Cardinality(Holders(f)') = file_cache'[f].ref_count /\ file_cache'[f].data # 0
    BY <2>1, <2>2, <2>3, <2>5, <2>6 DEF Cached, CountedInv
  <2>8. \A g \in FileName \ {f} :
          /\ Cardinality(Holders(g)') = IF Cached(g)' THEN file_cache'[g].ref_count ELSE 0
          /\ Cached(g)' => file_cache'[g].data # 0
    BY <2>3, <2>5 DEF Cached, CountedInv
  <2>9. CountedInv'
    BY <2>7, <2>8 DEF CountedInv
  <2> QED
    BY <2>1, <2>4, <2>9 DEF ReadingInv, Idle
<1> QED
  BY <1>2, <1>3

LEMMA MissPreserves ==
  ASSUME CacheInv, NEW r \in Reader, NEW f \in FileName, Miss(r, f)
  PROVE  CacheInv'
<1>1. CacheTypeOK'
  BY TimeStamps DEF CacheInv, CacheTypeOK, Miss
<1>2. CountedInv'
  BY DEF CacheInv, CountedInv, Miss, Holders, Cached
<1>3. ReadingInv'
  BY DEF CacheInv, ReadingInv, Miss, Cached, Absent
<1> QED
  BY <1>1, <1>2, <1>3 DEF CacheInv

LEMMA BusyWhenRead ==
  ASSUME NEW r, NEW f, CacheRead(r, f)
  PROVE  ~Idle /\ f \in reading.file
  BY DEF CacheRead, Idle, Nobody

LEMMA CacheReadPreserves ==
  ASSUME CacheAssumption, CacheInv, NEW r \in Reader, NEW f \in FileName, CacheRead(r, f)
  PROVE  CacheInv'
<1> DEFINE new == [data |-> reading.data, timestamp |-> get_timestamp(f), ref_count |-> 1]
<1>1. /\ file_cache' = [file_cache EXCEPT ![f] = new]
      /\ claimed' = [claimed EXCEPT ![r][f] = reading.data]
      /\ reading' = Nobody /\ disk' = disk /\ written' = written
  BY DEF CacheRead
<1>2. new \in [data : Nat, timestamp : Nat, ref_count : Int]
  BY TimeStamps DEF CacheInv, CacheTypeOK
<1>3. ~Idle /\ f \in reading.file
  BY BusyWhenRead
<1>4. ~Cached(f) /\ reading.data \in Nat \ {0}
  BY <1>3 DEF CacheInv, ReadingInv, CacheTypeOK
<1>5. Cardinality(Holders(f)) = 0
  BY <1>4 DEF CacheInv, CountedInv
<1>6. claimed[r][f] = 0
  <2>1. Holders(f) = {}
    BY <1>5, HoldersFinite, FS_EmptySet
  <2> QED
    BY <2>1 DEF Holders
<1>7. /\ claimed' \in [Reader -> [FileName -> Nat]]
      /\ Cardinality(Holders(f)') = 1
      /\ \A g \in FileName \ {f} : Holders(g)' = Holders(g)
  <2>1. CacheTypeOK
    BY DEF CacheInv
  <2>2. claimed' = [claimed EXCEPT ![r][f] = reading.data]
    BY <1>1
  <2>3. Cardinality(Holders(f)') = Cardinality(Holders(f)) + 1
    BY <1>4, <1>6, <2>1, <2>2, OneMore
  <2>4. /\ claimed' \in [Reader -> [FileName -> Nat]]
        /\ \A g \in FileName \ {f} : Holders(g)' = Holders(g)
    BY <1>4, <1>6, <2>1, <2>2, OneMore
  <2> QED
    BY <1>5, <2>3, <2>4
<1>8. CacheTypeOK'
  BY <1>1, <1>2, <1>7 DEF CacheInv, CacheTypeOK, Nobody
<1>9. file_cache'[f] = new /\ \A g \in FileName \ {f} : file_cache'[g] = file_cache[g]
  BY <1>1 DEF CacheInv, CacheTypeOK
<1>10. Cached(f)' /\ file_cache'[f].data # 0 /\ file_cache'[f].ref_count = 1
  BY <1>4, <1>9 DEF Cached
<1>11. \A g \in FileName \ {f} :
         /\ Cardinality(Holders(g)') = IF Cached(g)' THEN file_cache'[g].ref_count ELSE 0
         /\ Cached(g)' => file_cache'[g].data # 0
  BY <1>7, <1>9 DEF Cached, CacheInv, CountedInv
<1>12. CountedInv'
  BY <1>7, <1>10, <1>11 DEF CountedInv
<1> QED
  BY <1>1, <1>8, <1>12 DEF CacheInv, ReadingInv, Idle

LEMMA unclaimPreserves ==
  ASSUME CacheAssumption, CacheInv, NEW r \in Reader, NEW f \in FileName, unclaim(r, f)
  PROVE  CacheInv'
<1>0. PICK lowmemory \in BOOLEAN : file_cache' = [file_cache EXCEPT ![f] = Released(f, lowmemory)]
  BY DEF unclaim
<1> DEFINE new == Released(f, lowmemory)
<1>1. /\ file_cache' = [file_cache EXCEPT ![f] = new]
      /\ claimed' = [claimed EXCEPT ![r][f] = 0] /\ claimed[r][f] # 0
      /\ disk' = disk /\ reading' = reading /\ written' = written /\ Idle
  BY <1>0 DEF unclaim
<1>2. /\ claimed' \in [Reader -> [FileName -> Nat]]
      /\ Cardinality(Holders(f)) \in Nat \ {0}
      /\ Cardinality(Holders(f)') = Cardinality(Holders(f)) - 1
      /\ \A g \in FileName \ {f} : Holders(g)' = Holders(g)
  BY <1>1, OneLess DEF CacheInv
<1>3. /\ Cached(f) /\ file_cache[f].ref_count = Cardinality(Holders(f)) /\ file_cache[f].data # 0
      /\ file_cache[f] \in [data : Nat, timestamp : Nat, ref_count : Int]
  BY <1>2 DEF CacheInv, CountedInv, CacheTypeOK
<1>4. /\ new \in [data : Nat, timestamp : Nat, ref_count : Int]
      /\ new.ref_count >= 0 =>
           new.data # 0 /\ new.ref_count = file_cache[f].ref_count - 1
      /\ new.ref_count < 0 => file_cache[f].ref_count = 1
  <2>1. file_cache[f].ref_count \in Nat \ {0} /\ file_cache[f].ref_count - 1 \in Nat
    <3> DEFINE n == file_cache[f].ref_count
    <3>1. n \in Nat \ {0}
      BY <1>2, <1>3, Zenon
    <3> HIDE DEF n
    <3>2. n - 1 \in Nat
      BY <3>1
    <3> QED
      BY <3>1, <3>2 DEF n
  <2>2. CASE file_cache[f].ref_count = 1 /\ lowmemory
    <3>1. new = [data |-> 0, timestamp |-> 0, ref_count |-> -1]
      BY <2>2 DEF Released, Uncached
    <3> HIDE DEF new
    <3> QED
      BY <2>2, <3>1
  <2>3. CASE ~(file_cache[f].ref_count = 1 /\ lowmemory)
    <3>1. new = [file_cache[f] EXCEPT !.ref_count = @ - 1]
      BY <2>3 DEF Released
    <3>2. /\ new \in [data : Nat, timestamp : Nat, ref_count : Int]
          /\ new.data = file_cache[f].data
          /\ new.ref_count = file_cache[f].ref_count - 1
      BY <1>3, <2>1, <3>1
    <3> QED
      BY <1>3, <2>1, <3>2
  <2> QED
    BY <2>2, <2>3
<1> HIDE DEF new
<1>5. file_cache'[f] = new /\ \A g \in FileName \ {f} : file_cache'[g] = file_cache[g]
  BY <1>1 DEF CacheInv, CacheTypeOK
<1>6. CacheTypeOK'
  BY <1>1, <1>2, <1>4 DEF CacheInv, CacheTypeOK
<1>7. /\ Cardinality(Holders(f)') = IF Cached(f)' THEN file_cache'[f].ref_count ELSE 0
      /\ Cached(f)' => file_cache'[f].data # 0
  BY <1>2, <1>3, <1>4, <1>5 DEF Cached
<1>8. \A g \in FileName \ {f} :
        /\ Cardinality(Holders(g)') = IF Cached(g)' THEN file_cache'[g].ref_count ELSE 0
        /\ Cached(g)' => file_cache'[g].data # 0
  BY <1>2, <1>5 DEF Cached, CacheInv, CountedInv
<1>9. CountedInv'
  BY <1>7, <1>8 DEF CountedInv
<1> QED
  BY <1>1, <1>6, <1>9 DEF CacheInv, ReadingInv, Idle

LEMMA WritePreserves == ASSUME CacheAssumption, CacheInv, NEW f \in FileName, Write(f) PROVE CacheInv'
<1>1. PICK second \in Nat \ {0} : written' = Append(written, second)
  BY DEF Write, CacheAssumption
<1>2. written' \in Seq(Nat \ {0}) /\ Len(written') = Len(written) + 1 /\ Len(written) \in Nat
  BY <1>1, AppendProperties, LenProperties DEF CacheInv, CacheTypeOK
<1>3. \A v \in 0..Len(written) : v \in 0..Len(written')
  BY <1>2
<1>4. Len(written) + 1 \in 0..Len(written') /\ written' # <<>>
  <2>1. Len(written') # 0
    BY <1>2
  <2> QED
    BY <1>2, <2>1, EmptySeq
<1>5. disk' \in [FileName -> 0..Len(written')]
  BY <1>3, <1>4 DEF CacheInv, CacheTypeOK, Write
<1>6. CacheTypeOK'
  BY <1>2, <1>4, <1>5 DEF CacheInv, CacheTypeOK, Write
<1> QED
  BY <1>6 DEF CacheInv, CountedInv, ReadingInv, Write, Holders, Cached, Idle

LEMMA UnlinkPreserves == ASSUME CacheInv, NEW f \in FileName, Unlink(f) PROVE CacheInv'
<1>1. Absent \in 0..Len(written)
  BY TimeStamps DEF CacheInv, Absent
<1>2. CacheTypeOK'
  BY <1>1 DEF CacheInv, CacheTypeOK, Unlink
<1> QED
  BY <1>2 DEF CacheInv, CountedInv, ReadingInv, Unlink, Holders, Cached, Idle

LEMMA CacheInvStep == ASSUME CacheAssumption, CacheInv, [CacheNext]_cacheVars PROVE CacheInv'
<1>1. CASE UNCHANGED cacheVars
  BY <1>1 DEF cacheVars, CacheInv, CacheTypeOK, CountedInv, ReadingInv, Holders, Cached, Idle
<1> QED
  BY <1>1, HitPreserves, MissPreserves, CacheReadPreserves, unclaimPreserves, WritePreserves, UnlinkPreserves
     DEF CacheNext

\* What readers have and what is counted agree from the beginning on.
THEOREM CacheInvariant == ASSUME CacheAssumption PROVE CacheSpec => []CacheInv
<1>1. CacheInit => CacheInv
  BY CacheInvInit
<1>2. CacheInv /\ [CacheNext]_cacheVars => CacheInv'
  BY CacheInvStep
<1> QED
  BY <1>1, <1>2, PTL DEF CacheSpec

\* A file is counted as often as it is claimed (claim and unclaim,
\* src/src/interf.cc:534-596): unclaim() never frees what a reader still has, whether
\* memory is low or not.
THEOREM ClaimsCounted == ASSUME CacheAssumption PROVE CacheSpec => []Claims
<1>1. CacheInv => Claims
  BY DEF CacheInv, CountedInv, Claims, Holders
<1> QED
  BY <1>1, CacheInvariant, PTL

-----------------------------------------------------------------------------
\* A time stamp is that of the data, unless the file was gone when it was taken.
Stamped(f) ==
  file_cache[f].timestamp # 0 =>
    file_cache[f].data \in 1..Len(written) /\ written[file_cache[f].data] = file_cache[f].timestamp
StampInv ==
  /\ ~Idle => \A f \in reading.file : disk[f] = reading.data
  /\ \A f \in FileName : Cached(f) => Stamped(f)

LEMMA StampStep ==
  ASSUME ~Concurrent, CacheAssumption, CacheInv, StampInv, [CacheNext]_cacheVars
  PROVE  StampInv'
<1> USE DEF CacheInv, CacheTypeOK, StampInv
<1>0. Len(written) \in Nat
  BY LenProperties
<1>1. CASE UNCHANGED cacheVars
  BY <1>1 DEF cacheVars, Idle, Cached, Stamped
<1>2. ASSUME NEW f \in FileName, Write(f) PROVE StampInv'
  <2>1. PICK second \in Nat \ {0} : written' = Append(written, second)
    BY <1>2 DEF Write, CacheAssumption
  <2>2. Len(written') = Len(written) + 1 /\ \A i \in 1..Len(written) : i \in 1..Len(written') /\ written'[i] = written[i]
    BY <1>0, <2>1, AppendProperties
  <2> QED
    BY <1>2, <2>2 DEF Write, Idle, Cached, Stamped
<1>7. ASSUME NEW f \in FileName, Unlink(f) PROVE StampInv'
  BY <1>7 DEF Unlink, Idle, Cached, Stamped
<1>3. ASSUME NEW r \in Reader, NEW f \in FileName, Hit(r, f) PROVE StampInv'
  <2>1. \A g \in FileName \ {f} : file_cache'[g] = file_cache[g]
    BY <1>3 DEF Hit
  <2>2. Reread(f) \in [data : Nat, timestamp : Nat, ref_count : Int] /\ get_timestamp(f) \in Nat
        /\ disk[f] \in Nat /\ (get_timestamp(f) = 0 <=> disk[f] = Absent)
    BY RereadFacts, TimeStamps
  <2>3. file_cache'[f].data = Reread(f).data /\ file_cache'[f].timestamp = Reread(f).timestamp /\ written' = written
    BY <1>3, <2>2 DEF Hit
  <2>4. Reread(f).timestamp # 0 =>
          Reread(f).data \in 1..Len(written) /\ written[Reread(f).data] = Reread(f).timestamp
    <3>1. CASE get_timestamp(f) = 0
      BY <3>1, RereadFacts
    <3>2. CASE get_timestamp(f) # 0 /\ get_timestamp(f) = file_cache[f].timestamp
      <4>1. Reread(f).data = file_cache[f].data /\ Reread(f).timestamp = file_cache[f].timestamp
        BY <3>2, RereadFacts
      <4>2. Cached(f)
        BY <1>3 DEF Hit
      <4> QED
        BY <4>1, <4>2 DEF Stamped
    <3>3. CASE get_timestamp(f) # 0 /\ get_timestamp(f) # file_cache[f].timestamp
      <4>1. Reread(f).data = disk[f] /\ Reread(f).timestamp = get_timestamp(f)
        BY <3>3, RereadFacts
      <4>2. disk[f] \in 1..Len(written) /\ get_timestamp(f) = written[disk[f]]
        BY <1>0, <2>2, <3>3 DEF get_timestamp, Absent
      <4> QED
        BY <4>1, <4>2
    <3> QED
      BY <3>1, <3>2, <3>3
  <2> QED
    BY <1>3, <2>1, <2>3, <2>4 DEF Hit, Idle, Cached, Stamped
<1>4. ASSUME NEW r \in Reader, NEW f \in FileName, Miss(r, f) PROVE StampInv'
  BY <1>4 DEF Miss, Cached, Idle, Stamped
<1>5. ASSUME NEW r \in Reader, NEW f \in FileName, CacheRead(r, f) PROVE StampInv'
  <2>0. ~Idle /\ f \in reading.file /\ reading' = Nobody /\ disk' = disk /\ written' = written
    BY <1>5, BusyWhenRead DEF CacheRead
  <2>1. reading.data = disk[f]
    BY <2>0
  <2>2. \A g \in FileName \ {f} : file_cache'[g] = file_cache[g]
    BY <1>5 DEF CacheRead
  <2>3. file_cache'[f].data = disk[f] /\ file_cache'[f].timestamp = get_timestamp(f)
    BY <1>5, <2>1 DEF CacheRead
  <2>4. disk[f] \in 0..Len(written) /\ disk[f] \in Nat
    BY TimeStamps
  <2>5. get_timestamp(f) # 0 => disk[f] \in 1..Len(written) /\ written[disk[f]] = get_timestamp(f)
    BY <1>0, <2>4 DEF get_timestamp, Absent
  <2> QED
    BY <2>0, <2>2, <2>3, <2>5 DEF Idle, Cached, Stamped
<1>6. ASSUME NEW r \in Reader, NEW f \in FileName, unclaim(r, f) PROVE StampInv'
  <2>1. \A g \in FileName \ {f} : file_cache'[g] = file_cache[g]
    BY <1>6 DEF unclaim
  <2>2. PICK lowmemory \in BOOLEAN : file_cache'[f] = Released(f, lowmemory)
    BY <1>6 DEF unclaim
  <2>3. ASSUME Cached(f)' PROVE Stamped(f)'
    <3>1. Released(f, lowmemory) = [file_cache[f] EXCEPT !.ref_count = @ - 1]
      BY <2>2, <2>3 DEF Cached, Released, Uncached
    <3>2. file_cache[f] \in [data : Nat, timestamp : Nat, ref_count : Int]
      OBVIOUS
    <3>3. /\ file_cache'[f].data = file_cache[f].data
          /\ file_cache'[f].timestamp = file_cache[f].timestamp
          /\ file_cache'[f].ref_count = file_cache[f].ref_count - 1
      BY <2>2, <3>1, <3>2
    <3>4. Cached(f)
      BY <2>3, <3>2, <3>3 DEF Cached
    <3>5. written' = written
      BY <1>6 DEF unclaim
    <3> QED
      BY <3>3, <3>4, <3>5 DEF Stamped
  <2>4. \A g \in FileName \ {f} : Cached(g)' <=> Cached(g)
    BY <2>1 DEF Cached
  <2>5. Idle' /\ \A g \in FileName \ {f} : Cached(g)' => Stamped(g)'
    BY <1>6, <2>1, <2>4 DEF unclaim, Idle, Stamped
  <2> QED
    BY <2>3, <2>5
<1> QED
  BY <1>1, <1>2, <1>3, <1>4, <1>5, <1>6, <1>7 DEF CacheNext

LEMMA FreshStep ==
  ASSUME CacheInv, StampInv, [CacheNext]_cacheVars,
         NEW r \in Reader, NEW f \in FileName, claimed[r][f] = 0, claimed'[r][f] # 0, disk[f] # Absent
  PROVE  written[claimed'[r][f]] = written[disk[f]]
<1> USE DEF CacheInv, CacheTypeOK, StampInv
<1>1. PICK g \in FileName, q \in Reader : Hit(q, g) \/ CacheRead(q, g) \/ unclaim(q, g)
  BY DEF CacheNext, Write, Unlink, Miss, cacheVars
<1>2. CASE Hit(q, g)
  <2>1. claimed' = [claimed EXCEPT ![q][g] = Reread(g).data] /\ Cached(g)
    BY <1>2 DEF Hit
  <2>2. q = r /\ g = f /\ claimed'[r][f] = Reread(f).data
    BY <2>1
  <2>3. get_timestamp(f) # 0 /\ get_timestamp(f) = written[disk[f]]
    BY TimeStamps DEF get_timestamp
  <2>4. CASE get_timestamp(f) = file_cache[f].timestamp
    <3>1. Reread(f).data = file_cache[f].data
      BY <2>4, RereadFacts
    <3> QED
      BY <2>1, <2>2, <2>3, <2>4, <3>1 DEF Stamped
  <2>5. CASE get_timestamp(f) # file_cache[f].timestamp
    <3>1. Reread(f).data = disk[f]
      BY <2>3, <2>5, RereadFacts
    <3> QED
      BY <2>2, <3>1
  <2> QED
    BY <2>4, <2>5
<1>3. CASE CacheRead(q, g)
  <2>1. q = r /\ g = f /\ claimed'[r][f] = reading.data /\ f \in reading.file /\ ~Idle
    BY <1>3 DEF CacheRead, Idle, Nobody
  <2> QED
    BY <2>1
<1>4. CASE unclaim(q, g)
  BY <1>4 DEF unclaim
<1> QED
  BY <1>1, <1>2, <1>3, <1>4

\* What is claimed is what the file holds, or held at some time in the second in which it was last
\* written (claim, reclaim and get_timestamp, src/src/interf.cc:489-582), as long as nothing is
\* written between a file's being read and its time stamp being taken; if nobody writes a file
\* twice within a second, that is what it holds.
THEOREM AlwaysFresh == ASSUME CacheAssumption, ~Concurrent PROVE CacheSpec => Fresh
<1> DEFINE Step == \A r \in Reader, f \in FileName :
             claimed[r][f] = 0 /\ claimed'[r][f] # 0 /\ disk[f] # Absent =>
               written[claimed'[r][f]] = written[disk[f]]
<1>1. CacheInit => StampInv
  BY DEF CacheInit, StampInv, Idle, Cached, Uncached
<1>2. CacheInv /\ StampInv /\ [CacheNext]_cacheVars => StampInv'
  BY StampStep
<1>3. CacheInv /\ StampInv /\ [CacheNext]_cacheVars => Step
  BY FreshStep
<1>4. CacheSpec => [][Step]_cacheVars
  BY <1>1, <1>2, <1>3, CacheInvariant, PTL DEF CacheSpec
<1> QED
  BY <1>4 DEF Fresh

-----------------------------------------------------------------------------
(* The internal encoding.                                                  *)

\* A code that is an ASCII character gets another character.
Overrun == \E i \in Ascii : epos_charset'[i] \notin {epos_charset[i], i}

EncTypeOK ==
  /\ epos_charset \in [Codes -> Nat] /\ charset_list \in Seq(Names \cup {"default"})
  /\ charsets \in Seq([Codes -> Nat]) /\ encoders \in Seq([Codes -> Nat]) /\ decoders \in Seq([Codes -> Nat])
  /\ Len(charsets) = Len(charset_list) /\ Len(encoders) = Len(charset_list) /\ Len(decoders) = Len(charset_list)

\* No character has two codes, and an ASCII character no other code than its own.
Distinct ==
  /\ epos_charset[0] = UNUSED
  /\ \A i, j \in Codes : epos_charset[i] = epos_charset[j] /\ epos_charset[i] # UNUSED => i = j
  /\ \A i \in Ascii : epos_charset[i] \in {UNUSED, i}
  /\ \A i \in Codes \ Ascii : epos_charset[i] \notin Ascii

\* The character of a code: ASCII characters have theirs before these are entered.
Meaning(e) == IF epos_charset[e] = UNUSED THEN e ELSE epos_charset[e]
Used(e) == e \in Codes /\ (epos_charset[e] # UNUSED \/ e \in Ascii)

\* A byte has the code of its character.
Coded ==
  \A cs \in 1..Len(charset_list), b \in Codes :
    encoders[cs][b] # UNDEFINED => Used(encoders[cs][b]) /\ Character(cs, b) = Meaning(encoders[cs][b])

\* A code is decoded into a byte that has it.
Returned ==
  \A cs \in 1..Len(charset_list), b \in Codes :
    encoders[cs][b] # UNDEFINED =>
      decoders[cs][encoders[cs][b]] \in Codes /\ encoders[cs][decoders[cs][encoders[cs][b]]] = encoders[cs][b]

Charted == \A cs \in 1..Len(charset_list) : Chart(charsets[cs])

EncInv == EncTypeOK /\ Distinct /\ Charted /\ Coded /\ Returned

-----------------------------------------------------------------------------
\* The greatest of a bounded set of numbers.
LEMMA Greatest ==
  ASSUME NEW S \in SUBSET Nat, S # {}, NEW n \in Nat, \A x \in S : x <= n
  PROVE  Max(S) \in S /\ \A x \in S : Max(S) >= x
<1> DEFINE R == {n - x : x \in S}
<1>1. R \subseteq Nat /\ R # {}
  <2>1. \A x \in S : n - x \in Nat
    OBVIOUS
  <2>2. PICK y \in S : TRUE
    OBVIOUS
  <2>3. n - y \in R
    OBVIOUS
  <2> QED
    BY <2>1, <2>3
<1>2. PICK a \in R : \A b \in R : <<b, a>> \notin OpToRel(<, Nat)
  BY <1>1, NatLessThanWellFounded, WFMin
<1>3. PICK m \in S : a = n - m
  BY <1>2
<1>4. \A x \in S : m >= x
  <2> SUFFICES ASSUME NEW x \in S, m < x PROVE FALSE
    OBVIOUS
  <2>1. n - x \in R /\ n - x < a /\ n - x \in Nat /\ a \in Nat
    BY <1>1, <1>3
  <2> HIDE DEF R
  <2> QED
    BY <1>2, <2>1 DEF OpToRel
<1> QED
  BY <1>4 DEF Max

\* Of codes.
LEMMA GreatestCode ==
  ASSUME NEW S \in SUBSET Codes, NEW e \in S
  PROVE  /\ Max({UNDEFINED} \cup S) \in {UNDEFINED} \cup S
         /\ Max({UNDEFINED} \cup S) \in Nat /\ \A x \in S : Max({UNDEFINED} \cup S) >= x /\ x \in Nat
<1>1. PICK n \in Nat : Codes = 0..n
  BY EncAssumption
<1> DEFINE T == {UNDEFINED} \cup S
<1>2. T \in SUBSET Nat /\ T # {} /\ \A x \in T : x <= n
  BY <1>1 DEF UNDEFINED
<1> HIDE DEF T
<1>3. Max(T) \in T /\ \A x \in T : Max(T) >= x
  BY <1>2, Greatest
<1> QED
  BY <1>2, <1>3 DEF T

LEMMA CodesAre == /\ 0 \in Codes /\ Codes \subseteq Nat /\ Ascii \subseteq Codes /\ 0 \notin Ascii
                  /\ UNDEFINED = 0 /\ UNUSED = 0
  BY EncAssumption DEF UNDEFINED, UNUSED

\* A character that has a code has one only.
LEMMA InternalCode ==
  ASSUME EncInv, NEW c \in Nat \ {0}, NEW hint \in Codes
  PROVE  /\ internal_code(c, hint) \in Codes
         /\ internal_code(c, hint) # 0 => epos_charset[internal_code(c, hint)] = c
         /\ internal_code(c, hint) = 0 => \A i \in Codes : epos_charset[i] # c
<1> DEFINE S == {i \in Codes : epos_charset[i] = c}
<1>1. epos_charset[0] # c
  BY DEF EncInv, Distinct, UNUSED
<1>2. CASE epos_charset[hint] = c
  BY <1>1, <1>2 DEF internal_code
<1>3. CASE epos_charset[hint] # c
  <2>1. internal_code(c, hint) = Max({UNDEFINED} \cup S)
    BY <1>3 DEF internal_code
  <2>2. S \in SUBSET Codes /\ \A i \in S : epos_charset[i] = c /\ i # 0
    BY <1>1
  <2>3. \A i \in Codes \ S : epos_charset[i] # c
    OBVIOUS
  <2> HIDE DEF S
  <2>4. CASE S = {}
    <3>1. {UNDEFINED} \cup S = {0}
      BY <2>4 DEF UNDEFINED
    <3>2. Max({0}) = 0
      BY DEF Max
    <3> QED
      BY <2>1, <2>3, <2>4, <3>1, <3>2, CodesAre
  <2>5. ASSUME NEW e \in S PROVE Max({UNDEFINED} \cup S) \in S
    <3>1. e # 0 /\ e \in Nat
      BY <2>2, CodesAre
    <3>2. Max({UNDEFINED} \cup S) \in {UNDEFINED} \cup S /\ Max({UNDEFINED} \cup S) >= e /\ Max({UNDEFINED} \cup S) \in Nat
      BY <2>2, GreatestCode
    <3> QED
      BY <3>1, <3>2, CodesAre
  <2> QED
    BY <2>1, <2>2, <2>4, <2>5
<1> QED
  BY <1>2, <1>3

\* A code is taken that the character has, or that was free.
LEMMA AllocCode ==
  ASSUME EncInv, NEW c \in Nat \ {0}, NEW hint \in Codes \ {0}, do_alloc_code(c, hint) # UNDEFINED
  PROVE  /\ do_alloc_code(c, hint) \in Codes \ {0}
         /\ \/ epos_charset[do_alloc_code(c, hint)] = c
            \/ /\ epos_charset[do_alloc_code(c, hint)] = UNUSED
               /\ \A i \in Codes : epos_charset[i] # c
               /\ epos_charset[hint] = UNUSED => do_alloc_code(c, hint) = hint
               /\ epos_charset[hint] # UNUSED => do_alloc_code(c, hint) = Max({UNDEFINED} \cup Free)
<1> DEFINE k == do_alloc_code(c, hint)
<1>1. CASE internal_code(c, hint) # UNDEFINED
  BY <1>1, InternalCode, CodesAre DEF do_alloc_code
<1>2. CASE internal_code(c, hint) = UNDEFINED /\ epos_charset[hint] = UNUSED
  BY <1>2, InternalCode, CodesAre DEF do_alloc_code
<1>3. CASE internal_code(c, hint) = UNDEFINED /\ epos_charset[hint] # UNUSED
  <2>1. k = Max({UNDEFINED} \cup Free) /\ \A i \in Codes : epos_charset[i] # c
    BY <1>3, InternalCode, CodesAre DEF do_alloc_code
  <2>2. Free \in SUBSET Codes /\ \A i \in Free : epos_charset[i] = UNUSED /\ i # 0
    BY DEF Free
  <2>3. k \in Free
    <3>1. CASE Free = {}
      <4>1. {UNDEFINED} \cup Free = {0}
        BY <3>1, CodesAre
      <4>2. Max({0}) = 0
        BY DEF Max
      <4> QED
        BY <2>1, <4>1, <4>2, CodesAre
    <3>2. ASSUME NEW e \in Free PROVE k \in Free
      BY <2>1, <2>2, GreatestCode, CodesAre
    <3> QED
      BY <3>1, <3>2
  <2> QED
    BY <1>3, <2>1, <2>2, <2>3
<1> QED
  BY <1>1, <1>2, <1>3

-----------------------------------------------------------------------------
(* Allocation.                                                             *)

\* What an allocation is: byte b of charset cs is character c, which has code k from now on.
Allocation(cs, b, c, k) ==
  /\ cs \in 1..Len(charset_list) /\ b \in Codes \ {0} /\ c \in Nat \ {0} /\ k \in Codes \ {0}
  /\ encoders[cs][b] = UNDEFINED /\ c = Character(cs, b) /\ k = do_alloc_code(c, b)
  /\ epos_charset' = [epos_charset EXCEPT ![k] = c]
  /\ encoders' = [encoders EXCEPT ![cs][b] = k]
  /\ decoders' = [decoders EXCEPT ![cs][k] = b]
  /\ UNCHANGED <<charset_list, charsets>>

LEMMA TablesAre ==
  ASSUME EncInv, NEW cs \in 1..Len(charset_list)
  PROVE  charsets[cs] \in [Codes -> Nat] /\ encoders[cs] \in [Codes -> Nat] /\ decoders[cs] \in [Codes -> Nat]
<1>1. cs \in 1..Len(charsets) /\ cs \in 1..Len(encoders) /\ cs \in 1..Len(decoders)
  BY DEF EncInv, EncTypeOK
<1>2. charsets \in Seq([Codes -> Nat]) /\ encoders \in Seq([Codes -> Nat]) /\ decoders \in Seq([Codes -> Nat])
  BY DEF EncInv, EncTypeOK
<1> QED
  BY <1>1, <1>2, ElementOfSeq

LEMMA CharacterNat ==
  ASSUME EncInv, NEW cs \in 1..Len(charset_list), NEW b \in Codes
  PROVE  Character(cs, b) \in Nat
<1>1. charsets[cs] \in [Codes -> Nat] /\ b \in Nat /\ UNDEFINED \in Nat
  BY CodesAre, TablesAre
<1> QED
  BY <1>1 DEF Character, non_unicode_alloc_code

LEMMA AllocateIs ==
  ASSUME EncInv, NEW cs \in DOMAIN charset_list, NEW b \in Codes, Allocate(cs, b)
  PROVE  \E c \in Nat \ {0}, k \in Codes \ {0} : Allocation(cs, b, c, k)
<1>1. cs \in 1..Len(charset_list)
  BY DEF EncInv, EncTypeOK
<1> DEFINE c == Character(cs, b)
           k == do_alloc_code(c, b)
<1>2. /\ b # 0 /\ encoders[cs][b] = UNDEFINED /\ c # UNDEFINED /\ k # UNDEFINED
      /\ epos_charset' = [epos_charset EXCEPT ![k] = c]
      /\ encoders' = [encoders EXCEPT ![cs][b] = k]
      /\ decoders' = [decoders EXCEPT ![cs][k] = b]
      /\ UNCHANGED <<charset_list, charsets>>
  BY DEF Allocate
<1>3. c \in Nat \ {0}
  BY <1>1, <1>2, CharacterNat, CodesAre
<1> HIDE DEF c
<1>4. b \in Codes \ {0} /\ k # UNDEFINED
  BY <1>2
<1>5. k \in Codes \ {0}
  BY <1>3, <1>4, AllocCode
<1>6. c = Character(cs, b)
  BY DEF c
<1> QED
  BY <1>1, <1>2, <1>3, <1>4, <1>5, <1>6 DEF Allocation

\* An ASCII character is itself wherever it is known, and nothing else is one.
LEMMA AsciiItself ==
  ASSUME EncInv, NEW cs \in 1..Len(charset_list), NEW b \in Codes, Character(cs, b) # 0
  PROVE  IF b \in Ascii THEN Character(cs, b) = b ELSE Character(cs, b) \notin Ascii
<1> DEFINE m == charsets[cs]
<1>1. Chart(m)
  BY DEF EncInv, Charted
<1> HIDE DEF m
<1>2. Character(cs, b) = IF m[b] = UNDEFINED THEN non_unicode_alloc_code(b) ELSE m[b]
  BY DEF Character, m
<1>3. non_unicode_alloc_code(b) \in {0, b}
  BY CodesAre DEF non_unicode_alloc_code
<1> QED
  BY <1>1, <1>2, <1>3, CodesAre DEF Chart

\* The character of a byte that has one does not change.
LEMMA CharacterStays ==
  ASSUME EncInv, ~Overrun, NEW k \in Codes \ {0}, NEW c \in Nat \ {0},
         epos_charset[k] \in {UNUSED, c}, epos_charset' = [epos_charset EXCEPT ![k] = c],
         NEW cs \in 1..Len(charset_list), NEW b \in Codes, Character(cs, b) # 0, charsets'[cs] = charsets[cs]
  PROVE  Character(cs, b)' = Character(cs, b)
<1>1. CASE charsets[cs][b] # UNDEFINED
  BY <1>1 DEF Character
<1>2. CASE charsets[cs][b] = UNDEFINED
  <2>1. Character(cs, b) = non_unicode_alloc_code(b) /\ Character(cs, b)' = non_unicode_alloc_code(b)'
    BY <1>2 DEF Character
  <2>2. b # 0 /\ (b \in ControlBytes \/ epos_charset[b] = b) /\ non_unicode_alloc_code(b) = b
    BY <2>1, CodesAre DEF non_unicode_alloc_code
  <2>3. epos_charset \in [Codes -> Nat]
    BY DEF EncInv, EncTypeOK
  <2>4. epos_charset'[b] = b \/ (b \in ControlBytes /\ epos_charset'[b] = UNUSED)
    <3>1. CASE epos_charset[b] = b
      <4>1. epos_charset[b] # UNUSED
        BY <2>2, <3>1, CodesAre
      <4> QED
        BY <2>3, <3>1, <4>1
    <3>2. CASE b \in ControlBytes
      <4>1. b \in Ascii
        BY <2>2, <3>2, EncAssumption
      <4>2. epos_charset'[b] \in {epos_charset[b], b} /\ epos_charset[b] \in {UNUSED, b}
        BY <4>1 DEF Overrun, EncInv, Distinct
      <4> QED
        BY <3>2, <4>2
    <3> QED
      BY <2>2, <3>1, <3>2
  <2> QED
    BY <2>1, <2>2, <2>4 DEF non_unicode_alloc_code
<1> QED
  BY <1>1, <1>2

\* Nor does that of a code.
LEMMA MeaningStays ==
  ASSUME EncInv, ~Overrun, NEW k \in Codes \ {0}, NEW c \in Nat \ {0},
         epos_charset[k] \in {UNUSED, c}, epos_charset' = [epos_charset EXCEPT ![k] = c],
         NEW e, Used(e)
  PROVE  Used(e)' /\ Meaning(e)' = Meaning(e)
<1>1. epos_charset \in [Codes -> Nat] /\ e \in Codes
  BY DEF EncInv, EncTypeOK, Used
<1>2. CASE epos_charset[e] # UNUSED
  <2>1. epos_charset'[e] = epos_charset[e]
    BY <1>1, <1>2
  <2> QED
    BY <1>1, <1>2, <2>1 DEF Used, Meaning
<1>3. CASE epos_charset[e] = UNUSED
  <2>1. e \in Ascii
    BY <1>3 DEF Used
  <2>2. epos_charset'[e] \in {UNUSED, e}
    BY <1>3, <2>1 DEF Overrun
  <2> QED
    BY <1>1, <1>3, <2>1, <2>2 DEF Used, Meaning
<1> QED
  BY <1>2, <1>3

\* No character gets a second code.
LEMMA StillDistinct ==
  ASSUME EncInv, ~Overrun, NEW cs, NEW b, NEW c, NEW k, Allocation(cs, b, c, k)
  PROVE  /\ Distinct' /\ epos_charset[k] \in {UNUSED, c} /\ epos_charset' \in [Codes -> Nat]
         /\ epos_charset'[k] = c
<1>1. /\ cs \in 1..Len(charset_list) /\ b \in Codes \ {0} /\ c \in Nat \ {0} /\ k \in Codes \ {0}
      /\ c = Character(cs, b) /\ k = do_alloc_code(c, b) /\ epos_charset' = [epos_charset EXCEPT ![k] = c]
  BY DEF Allocation
<1>2. epos_charset \in [Codes -> Nat] /\ Distinct
  BY DEF EncInv, EncTypeOK
<1>3. \/ epos_charset[k] = c
      \/ /\ epos_charset[k] = UNUSED /\ (\A i \in Codes : epos_charset[i] # c)
         /\ epos_charset[b] = UNUSED => k = b
  <2>1. do_alloc_code(c, b) # UNDEFINED
    BY <1>1, CodesAre
  <2> QED
    BY <1>1, <2>1, AllocCode
<1>4. \A i \in Codes : epos_charset'[i] = IF i = k THEN c ELSE epos_charset[i]
  BY <1>1, <1>2
<1>5. epos_charset'[0] = UNUSED
  BY <1>1, <1>2, <1>4, CodesAre DEF Distinct
<1>6. \A i, j \in Codes : epos_charset'[i] = epos_charset'[j] /\ epos_charset'[i] # UNUSED => i = j
  BY <1>1, <1>2, <1>3, <1>4 DEF Distinct
<1>7. \A i \in Ascii : epos_charset'[i] \in {UNUSED, i}
  BY <1>2 DEF Overrun, Distinct
<1>8. ASSUME k \notin Ascii, c \in Ascii PROVE FALSE
  <2>1. c = b /\ b \in Ascii
    BY <1>1, <1>8, AsciiItself
  <2>2. epos_charset[k] # c
    BY <1>1, <1>2, <1>8 DEF Distinct
  <2>3. epos_charset[b] # UNUSED
    BY <1>3, <1>8, <2>1, <2>2
  <2>4. epos_charset[b] = b
    BY <1>2, <2>1, <2>3 DEF Distinct
  <2> QED
    BY <1>1, <1>3, <2>1, <2>2, <2>4
<1>9. \A i \in Codes \ Ascii : epos_charset'[i] \notin Ascii
  BY <1>2, <1>4, <1>8 DEF Distinct
<1> QED
  BY <1>1, <1>2, <1>3, <1>4, <1>5, <1>6, <1>7, <1>9 DEF Distinct

LEMMA AllocateStep ==
  ASSUME EncInv, ~Overrun, NEW cs \in DOMAIN charset_list, NEW b \in Codes, Allocate(cs, b)
  PROVE  EncInv'
<1>1. PICK c \in Nat \ {0}, k \in Codes \ {0} : Allocation(cs, b, c, k)
  BY AllocateIs
<1>2. /\ cs \in 1..Len(charset_list) /\ b \in Codes \ {0} /\ encoders[cs][b] = UNDEFINED /\ c = Character(cs, b)
      /\ epos_charset' = [epos_charset EXCEPT ![k] = c]
      /\ encoders' = [encoders EXCEPT ![cs][b] = k]
      /\ decoders' = [decoders EXCEPT ![cs][k] = b]
      /\ charset_list' = charset_list /\ charsets' = charsets
  BY <1>1 DEF Allocation
<1>3. /\ Distinct' /\ epos_charset[k] \in {UNUSED, c} /\ epos_charset' \in [Codes -> Nat]
      /\ epos_charset'[k] = c
  BY <1>1, StillDistinct
<1>4. \A d \in 1..Len(charset_list), x \in Codes : Character(d, x) # 0 => Character(d, x)' = Character(d, x)
  <2> SUFFICES ASSUME NEW d \in 1..Len(charset_list), NEW x \in Codes, Character(d, x) # 0
               PROVE  Character(d, x)' = Character(d, x)
    OBVIOUS
  <2>1. charsets'[d] = charsets[d]
    BY <1>2
  <2> QED
    <3>1. epos_charset[k] \in {UNUSED, c}
      BY <1>3
    <3>2. epos_charset' = [epos_charset EXCEPT ![k] = c]
      BY <1>2
    <3> QED
      BY <2>1, <3>1, <3>2, CharacterStays
<1>5. \A e : Used(e) => Used(e)' /\ Meaning(e)' = Meaning(e)
  BY <1>2, <1>3, MeaningStays
<1>6. EncTypeOK
  BY DEF EncInv
<1>7. \A d \in 1..Len(charset_list), x \in Codes : encoders'[d][x] = IF d = cs /\ x = b THEN k ELSE encoders[d][x]
  <2> SUFFICES ASSUME NEW d \in 1..Len(charset_list), NEW x \in Codes
               PROVE  encoders'[d][x] = IF d = cs /\ x = b THEN k ELSE encoders[d][x]
    OBVIOUS
  <2>1. encoders[d] \in [Codes -> Nat]
    BY TablesAre
  <2>2. DOMAIN encoders = 1..Len(charset_list)
    BY <1>6 DEF EncTypeOK
  <2> QED
    BY <1>2, <2>1, <2>2
<1>8. \A d \in 1..Len(charset_list), e \in Codes : decoders'[d][e] = IF d = cs /\ e = k THEN b ELSE decoders[d][e]
  <2> SUFFICES ASSUME NEW d \in 1..Len(charset_list), NEW e \in Codes
               PROVE  decoders'[d][e] = IF d = cs /\ e = k THEN b ELSE decoders[d][e]
    OBVIOUS
  <2>1. decoders[d] \in [Codes -> Nat]
    BY TablesAre
  <2>2. DOMAIN decoders = 1..Len(charset_list)
    BY <1>6 DEF EncTypeOK
  <2> QED
    BY <1>2, <2>1, <2>2
<1>9. EncTypeOK'
  <2>1. [encoders[cs] EXCEPT ![b] = k] \in [Codes -> Nat] /\ [decoders[cs] EXCEPT ![k] = b] \in [Codes -> Nat]
    BY <1>2, TablesAre, CodesAre
  <2>2. /\ encoders' = [encoders EXCEPT ![cs] = [encoders[cs] EXCEPT ![b] = k]]
        /\ decoders' = [decoders EXCEPT ![cs] = [decoders[cs] EXCEPT ![k] = b]]
    BY <1>2
  <2>3. encoders' \in Seq([Codes -> Nat]) /\ Len(encoders') = Len(encoders)
    BY <1>2, <1>6, <2>1, <2>2, ExceptSeq DEF EncTypeOK
  <2>4. decoders' \in Seq([Codes -> Nat]) /\ Len(decoders') = Len(decoders)
    BY <1>2, <1>6, <2>1, <2>2, ExceptSeq DEF EncTypeOK
  <2> QED
    BY <1>2, <1>3, <1>6, <2>3, <2>4 DEF EncTypeOK
<1>10. Charted'
  BY <1>2 DEF EncInv, Charted, Chart
<1>11. Coded'
  <2> SUFFICES ASSUME NEW d \in 1..Len(charset_list), NEW x \in Codes, encoders'[d][x] # UNDEFINED
               PROVE  Used(encoders[d][x])' /\ Character(d, x)' = Meaning(encoders[d][x])'
    BY <1>2 DEF Coded, Used, Meaning, Character, non_unicode_alloc_code
  <2>1. CASE d = cs /\ x = b
    <3>1. encoders'[d][x] = k
      BY <1>7, <2>1
    <3>2. Used(k)' /\ Meaning(k)' = c
      BY <1>3, CodesAre DEF Used, Meaning
    <3>3. Character(d, x)' = c
      BY <1>2, <1>4, <2>1
    <3> QED
      BY <3>1, <3>2, <3>3 DEF Used, Meaning
  <2>2. CASE ~(d = cs /\ x = b)
    <3>1. encoders'[d][x] = encoders[d][x]
      BY <1>7, <2>2
    <3> PICK e : e = encoders[d][x]
      OBVIOUS
    <3>2. Used(e) /\ Character(d, x) = Meaning(e)
      BY <3>1 DEF EncInv, Coded
    <3>3. Meaning(e) # 0
      BY <3>1, <3>2, CodesAre DEF Meaning
    <3>4. Used(e)' /\ Meaning(e)' = Meaning(e) /\ Character(d, x)' = Character(d, x)
      BY <1>4, <1>5, <3>2, <3>3
    <3> QED
      BY <3>1, <3>2, <3>4 DEF Used, Meaning
  <2> QED
    BY <2>1, <2>2
<1>12. Returned'
  <2> SUFFICES ASSUME NEW d \in 1..Len(charset_list), NEW x \in Codes, NEW e, e = encoders'[d][x], e # UNDEFINED
               PROVE  decoders'[d][e] \in Codes /\ encoders'[d][decoders'[d][e]] = e
    BY <1>2 DEF Returned
  <2>1. e \in Codes
    <3>1. CASE d = cs /\ x = b
      BY <1>7, <3>1
    <3>2. CASE ~(d = cs /\ x = b)
      BY <1>7, <3>2 DEF EncInv, Coded, Used
    <3> QED
      BY <3>1, <3>2
  <2>2. CASE d = cs /\ e = k
    <3>1. decoders'[d][e] = b
      BY <1>8, <2>1, <2>2
    <3> QED
      BY <1>2, <1>7, <2>2, <3>1
  <2>3. CASE ~(d = cs /\ e = k)
    <3>1. e = encoders[d][x] /\ decoders'[d][e] = decoders[d][e]
      BY <1>7, <1>8, <2>1, <2>3
    <3>2. decoders[d][e] \in Codes /\ encoders[d][decoders[d][e]] = e
      BY <3>1 DEF EncInv, Returned
    <3>3. ~(d = cs /\ decoders[d][e] = b)
      BY <1>2, <3>2
    <3>4. encoders'[d][decoders[d][e]] = encoders[d][decoders[d][e]]
      BY <1>7, <3>2, <3>3
    <3> QED
      BY <3>1, <3>2, <3>4
  <2> QED
    BY <2>2, <2>3
<1> QED
  BY <1>3, <1>9, <1>10, <1>11, <1>12 DEF EncInv

-----------------------------------------------------------------------------
(* Charsets that are loaded.                                               *)

LEMMA LoadStep ==
  ASSUME EncInv, OrdinaryMaps, NEW name \in Names, NEW last, LoadCharset(name, last)
  PROVE  EncInv'
<1> DEFINE map == [b \in Codes |-> IF b <= last THEN Maps[name][b] ELSE UNDEFINED]
           known == [b \in Codes |-> IF map[b] = UNDEFINED THEN UNDEFINED ELSE internal_code(map[b], b)]
           back == [i \in Codes |-> Max({UNDEFINED} \cup {b \in Codes \ {0} : i # 0 /\ known[b] = i})]
           n == Len(charset_list)
<1>1. /\ charset_list' = Append(charset_list, name) /\ charsets' = Append(charsets, map)
      /\ encoders' = Append(encoders, known) /\ decoders' = Append(decoders, back) /\ epos_charset' = epos_charset
  BY DEF LoadCharset
<1>2. map \in [Codes -> Nat] /\ Chart(map)
  <2>1. Maps[name] \in [Codes -> Nat] /\ Chart(Maps[name])
    BY EncAssumption DEF OrdinaryMaps, Names
  <2>2. map \in [Codes -> Nat]
    BY <2>1, CodesAre
  <2>3. \A b \in Codes : map[b] \in {0, Maps[name][b]}
    BY CodesAre
  <2> HIDE DEF map
  <2> QED
    BY <2>1, <2>2, <2>3, CodesAre DEF Chart
<1> HIDE DEF map
<1>3. \A b \in Codes : known[b] \in Nat /\ (known[b] # 0 => known[b] \in Codes /\ b # 0 /\ epos_charset[known[b]] = map[b] /\ map[b] # 0)
  <2> SUFFICES ASSUME NEW b \in Codes
               PROVE  known[b] \in Nat /\ (known[b] # 0 => known[b] \in Codes /\ b # 0 /\ epos_charset[known[b]] = map[b] /\ map[b] # 0)
    OBVIOUS
  <2>1. CASE map[b] = 0
    BY <2>1, CodesAre
  <2>2. CASE map[b] # 0
    <3>1. map[b] \in Nat \ {0} /\ b # 0
      BY <1>2, <2>2, CodesAre DEF Chart
    <3>2. known[b] = internal_code(map[b], b)
      BY <2>2, CodesAre
    <3> HIDE DEF known
    <3> QED
      BY <3>1, <3>2, InternalCode, CodesAre
  <2> QED
    BY <2>1, <2>2
<1>4. known \in [Codes -> Nat]
  <2>1. DOMAIN known = Codes /\ known = [b \in Codes |-> known[b]]
    OBVIOUS
  <2> HIDE DEF known
  <2> QED
    BY <1>3, <2>1
<1> HIDE DEF known
<1>5. \A i \in Codes : /\ back[i] \in Nat
                       /\ \A b \in Codes : i # 0 /\ known[b] = i => back[i] \in Codes /\ known[back[i]] = i
  <2> SUFFICES ASSUME NEW i \in Codes
               PROVE  /\ back[i] \in Nat
                      /\ \A b \in Codes : i # 0 /\ known[b] = i => back[i] \in Codes /\ known[back[i]] = i
    OBVIOUS
  <2> DEFINE S == {b \in Codes \ {0} : i # 0 /\ known[b] = i}
  <2>1. back[i] = Max({UNDEFINED} \cup S)
    OBVIOUS
  <2>2. S \in SUBSET Codes /\ \A b \in S : b # 0 /\ known[b] = i
    OBVIOUS
  <2>3. \A b \in Codes : i # 0 /\ known[b] = i => b \in S
    BY <1>3
  <2> HIDE DEF S, back
  <2>4. CASE S = {}
    <3>1. {UNDEFINED} \cup S = {0} /\ Max({0}) = 0
      BY <2>4, CodesAre DEF Max
    <3> QED
      BY <2>1, <2>3, <2>4, <3>1
  <2>5. ASSUME NEW e \in S PROVE back[i] \in S /\ back[i] \in Nat
    <3>1. e # 0 /\ e \in Nat
      BY <2>2, <2>5, CodesAre
    <3>2. Max({UNDEFINED} \cup S) \in {UNDEFINED} \cup S /\ Max({UNDEFINED} \cup S) >= e /\ Max({UNDEFINED} \cup S) \in Nat
      BY <2>2, <2>5, GreatestCode
    <3> QED
      BY <2>1, <3>1, <3>2, CodesAre
  <2> QED
    BY <2>2, <2>3, <2>4, <2>5
<1>6. back \in [Codes -> Nat]
  <2>1. back = [i \in Codes |-> back[i]]
    OBVIOUS
  <2> HIDE DEF back
  <2> QED
    BY <1>5, <2>1
<1> HIDE DEF back
<1>7. EncTypeOK /\ n \in Nat
  BY DEF EncInv, EncTypeOK
<1>8. /\ Len(charset_list') = n + 1 /\ charset_list' \in Seq(Names \cup {"default"})
      /\ charsets' \in Seq([Codes -> Nat]) /\ Len(charsets') = n + 1 /\ charsets'[n + 1] = map
      /\ \A d \in 1..n : charsets'[d] = charsets[d]
  BY <1>1, <1>2, <1>7, AppendProperties DEF EncTypeOK
<1>9. /\ encoders' \in Seq([Codes -> Nat]) /\ Len(encoders') = n + 1 /\ encoders'[n + 1] = known
      /\ \A d \in 1..n : encoders'[d] = encoders[d]
  BY <1>1, <1>4, <1>7, AppendProperties DEF EncTypeOK
<1>10. /\ decoders' \in Seq([Codes -> Nat]) /\ Len(decoders') = n + 1 /\ decoders'[n + 1] = back
       /\ \A d \in 1..n : decoders'[d] = decoders[d]
  BY <1>1, <1>6, <1>7, AppendProperties DEF EncTypeOK
<1>11. \A d \in 1..n + 1 : d \in 1..n \/ d = n + 1
  BY <1>7
<1> HIDE DEF n
<1>12. EncTypeOK' /\ Distinct' /\ Charted'
  BY <1>1, <1>2, <1>7, <1>8, <1>9, <1>10, <1>11 DEF EncTypeOK, EncInv, Distinct, Charted, n
<1>13. Coded'
  <2> SUFFICES ASSUME NEW d \in 1..n + 1, NEW x \in Codes, encoders'[d][x] # UNDEFINED
               PROVE  Used(encoders[d][x])' /\ Character(d, x)' = Meaning(encoders[d][x])'
    BY <1>8 DEF Coded, Used, Meaning, Character, non_unicode_alloc_code
  <2>1. CASE d \in 1..n
    <3>1. encoders'[d] = encoders[d] /\ charsets'[d] = charsets[d] /\ encoders[d][x] # UNDEFINED
      BY <1>8, <1>9, <2>1
    <3>2. Used(encoders[d][x]) /\ Character(d, x) = Meaning(encoders[d][x])
      BY <2>1, <3>1 DEF EncInv, Coded, n
    <3>3. Used(encoders[d][x])' /\ Meaning(encoders[d][x])' = Meaning(encoders[d][x])
      BY <1>1, <3>1, <3>2 DEF Used, Meaning
    <3>4. Character(d, x)' = Character(d, x)
      BY <1>1, <3>1 DEF Character, non_unicode_alloc_code
    <3> QED
      BY <3>2, <3>3, <3>4
  <2>2. CASE d = n + 1
    <3>1. known[x] \in Codes /\ epos_charset[known[x]] = map[x] /\ map[x] # 0 /\ encoders'[d][x] = known[x]
      BY <1>3, <1>9, <2>2, CodesAre
    <3>2. Character(d, x)' = map[x]
      BY <1>8, <2>2, <3>1, CodesAre DEF Character
    <3> QED
      BY <1>1, <3>1, <3>2, CodesAre DEF Used, Meaning
  <2> QED
    BY <1>11, <2>1, <2>2
<1>14. Returned'
  <2> SUFFICES ASSUME NEW d \in 1..n + 1, NEW x \in Codes, encoders'[d][x] # UNDEFINED
               PROVE  decoders'[d][encoders'[d][x]] \in Codes /\ encoders'[d][decoders'[d][encoders'[d][x]]] = encoders'[d][x]
    BY <1>8 DEF Returned
  <2>1. CASE d \in 1..n
    <3>1. encoders'[d] = encoders[d] /\ decoders'[d] = decoders[d] /\ encoders[d][x] # UNDEFINED
      BY <1>9, <1>10, <2>1
    <3>2. decoders[d][encoders[d][x]] \in Codes /\ encoders[d][decoders[d][encoders[d][x]]] = encoders[d][x]
      BY <2>1, <3>1 DEF EncInv, Returned, n
    <3> QED
      BY <3>1, <3>2
  <2>2. CASE d = n + 1
    <3>1. known[x] \in Codes /\ known[x] # 0
      BY <1>3, <1>9, <2>2, CodesAre
    <3> QED
      BY <1>5, <1>9, <1>10, <2>2, <3>1
  <2> QED
    BY <1>11, <2>1, <2>2
<1> QED
  BY <1>12, <1>13, <1>14 DEF EncInv

LEMMA InitEnc == EncInit => EncInv
<1> SUFFICES ASSUME EncInit PROVE EncInv
  OBVIOUS
<1>1. /\ epos_charset = Blank /\ charset_list = <<"default">> /\ charsets = <<Identity>>
      /\ encoders = <<Identity>> /\ decoders = <<Identity>>
  BY DEF EncInit
<1>2. Identity \in [Codes -> Nat] /\ Blank \in [Codes -> Nat]
  BY CodesAre DEF Identity, Blank
<1>3. EncTypeOK
  BY <1>1, <1>2 DEF EncTypeOK
<1>4. \A d \in 1..Len(charset_list) : d = 1
  BY <1>1
<1>5. /\ \A b \in Codes : Identity[b] = (IF b \in Ascii THEN b ELSE 0) /\ epos_charset[b] = 0
      /\ charsets[1] = Identity /\ encoders[1] = Identity /\ decoders[1] = Identity
  BY <1>1, CodesAre DEF Identity, Blank
<1>6. Distinct
  BY <1>5, CodesAre DEF Distinct
<1>7. Charted
  BY <1>4, <1>5, CodesAre DEF Charted, Chart
<1>8. Coded
  BY <1>4, <1>5, CodesAre DEF Coded, Used, Meaning, Character
<1>9. Returned
  BY <1>4, <1>5, CodesAre DEF Returned
<1> QED
  BY <1>3, <1>6, <1>7, <1>8, <1>9 DEF EncInv

\* Codes and characters correspond.
LEMMA EncInvUnified == EncInv => Unified
<1> SUFFICES ASSUME EncInv PROVE Unified
  OBVIOUS
<1>1. \A e, f : Used(e) /\ Used(f) /\ Meaning(e) = Meaning(f) => e = f
  BY CodesAre DEF EncInv, Distinct, Used, Meaning
<1>2. DOMAIN charset_list = 1..Len(charset_list)
  BY DEF EncInv, EncTypeOK
<1>3. \A p \in Known : /\ p[1] \in 1..Len(charset_list) /\ p[2] \in Codes /\ encoders[p[1]][p[2]] # UNDEFINED
                       /\ Used(encoders[p[1]][p[2]]) /\ Character(p[1], p[2]) = Meaning(encoders[p[1]][p[2]])
  BY <1>2 DEF Known, EncInv, Coded
<1>4. \A p, q \in Known :
        encoders[p[1]][p[2]] = encoders[q[1]][q[2]] <=> Character(p[1], p[2]) = Character(q[1], q[2])
  BY <1>1, <1>3
<1>5. \A p \in Known : Character(p[1], decoders[p[1]][encoders[p[1]][p[2]]]) = Character(p[1], p[2])
  <2> SUFFICES ASSUME NEW p \in Known
               PROVE  Character(p[1], decoders[p[1]][encoders[p[1]][p[2]]]) = Character(p[1], p[2])
    OBVIOUS
  <2> PICK d, e : d = p[1] /\ e = encoders[d][p[2]]
    OBVIOUS
  <2>1. d \in 1..Len(charset_list) /\ e # UNDEFINED /\ Character(d, p[2]) = Meaning(e)
    BY <1>3
  <2>2. decoders[d][e] \in Codes /\ encoders[d][decoders[d][e]] = e
    BY <1>3, <2>1 DEF EncInv, Returned
  <2>3. Character(d, decoders[d][e]) = Meaning(e)
    BY <2>1, <2>2 DEF EncInv, Coded
  <2> QED
    BY <2>1, <2>3
<1> QED
  BY <1>4, <1>5 DEF Unified

\* Steps of nobody.
LEMMA EncUnchanged == ASSUME EncInv, UNCHANGED encVars PROVE EncInv'
<1>1. EncTypeOK' /\ Distinct' /\ Charted' /\ Returned'
  BY DEF encVars, EncInv, EncTypeOK, Distinct, Charted, Chart, Returned
<1>2. Coded'
  BY DEF encVars, EncInv, Coded, Used, Meaning, Character, non_unicode_alloc_code
<1> QED
  BY <1>1, <1>2 DEF EncInv

-----------------------------------------------------------------------------
(* Theorems.                                                               *)

\* Codes and characters correspond as long as no ASCII character loses its code to another
\* one, which the table does not keep for it (alloc_code and load_default_charset,
\* src/src/encoding.cc:77-102, 223-232).
THEOREM UnifiedUnlessOverrun ==
  OrdinaryMaps /\ EncInit /\ [][EncNext /\ ~Overrun]_encVars => []Unified
<1> SUFFICES ASSUME OrdinaryMaps PROVE EncInit /\ [][EncNext /\ ~Overrun]_encVars => []Unified
  OBVIOUS
<1>1. ASSUME EncInv, [EncNext /\ ~Overrun]_encVars PROVE EncInv'
  <2>1. CASE UNCHANGED encVars
    BY <1>1, <2>1, EncUnchanged
  <2>2. ASSUME ~Overrun, NEW cs \in DOMAIN charset_list, NEW b \in Codes, Allocate(cs, b) PROVE EncInv'
    BY <1>1, <2>2, AllocateStep
  <2>3. ASSUME NEW name \in Names, NEW last \in {Max(Ascii), Max(Codes)}, LoadCharset(name, last) PROVE EncInv'
    BY <1>1, <2>3, LoadStep
  <2> QED
    BY <1>1, <2>1, <2>2, <2>3 DEF EncNext
<1> QED
  BY <1>1, InitEnc, EncInvUnified, PTL

\* Nothing else is in the table.
Expected ==
  /\ \A i \in Codes : epos_charset[i] \in Ascii \cup {UNUSED} \cup Foreign
  /\ \A cs \in 1..Len(charset_list), b \in Codes : charsets[cs][b] \in Ascii \cup {UNDEFINED} \cup Foreign

\* Some code beyond ASCII is free as long as there is a character without a code.
LEMMA OneLeft ==
  ASSUME EncInv, Expected, EnoughCodes, NEW c \in Foreign, \A i \in Codes : epos_charset[i] # c
  PROVE  \E i \in Beyond : epos_charset[i] = UNUSED
<1> SUFFICES ASSUME \A i \in Beyond : epos_charset[i] # UNUSED PROVE FALSE
  OBVIOUS
<1> DEFINE f == [i \in Beyond |-> epos_charset[i]]
           T == Foreign \ {c}
<1>1. \A i \in Beyond : epos_charset[i] \in T
  BY DEF Beyond, Expected, EncInv, Distinct
<1>2. \A i, j \in Beyond : epos_charset[i] = epos_charset[j] => i = j
  BY DEF Beyond, EncInv, Distinct
<1>3. f \in Injection(Beyond, T)
  BY <1>1, <1>2 DEF Injection, IsInjective
<1>4. IsFiniteSet(T) /\ Cardinality(T) = Cardinality(Foreign) - 1 /\ Cardinality(Foreign) \in Nat
  BY FS_RemoveElement, FS_CardinalityType DEF EnoughCodes
<1> HIDE DEF f, T
<1>5. IsFiniteSet(Beyond) /\ Cardinality(Beyond) <= Cardinality(T)
  BY <1>3, <1>4, FS_Injection
<1>6. Cardinality(Beyond) \in Nat
  BY <1>5, FS_CardinalityType
<1> QED
  BY <1>4, <1>5, <1>6 DEF EnoughCodes

\* So ASCII characters keep their codes.
LEMMA NotOverrun ==
  ASSUME EncInv, Expected, EnoughCodes, NEW cs \in DOMAIN charset_list, NEW b \in Codes, Allocate(cs, b)
  PROVE  ~Overrun /\ Expected'
<1>1. PICK c \in Nat \ {0}, k \in Codes \ {0} : Allocation(cs, b, c, k)
  BY AllocateIs
<1>2. /\ cs \in 1..Len(charset_list) /\ b \in Codes \ {0} /\ c = Character(cs, b) /\ k = do_alloc_code(c, b)
      /\ epos_charset' = [epos_charset EXCEPT ![k] = c] /\ charset_list' = charset_list /\ charsets' = charsets
  BY <1>1 DEF Allocation
<1>3. epos_charset \in [Codes -> Nat] /\ Distinct
  BY DEF EncInv, EncTypeOK
<1>4. \A i \in Codes : epos_charset'[i] = IF i = k THEN c ELSE epos_charset[i]
  BY <1>2, <1>3
<1>5. c \in Ascii \cup Foreign
  <2>1. CASE charsets[cs][b] # UNDEFINED
    BY <1>2, <2>1, CodesAre DEF Expected, Character
  <2>2. CASE charsets[cs][b] = UNDEFINED
    <3>1. c = non_unicode_alloc_code(b)
      BY <1>2, <2>2 DEF Character
    <3>2. c = b /\ (b \in ControlBytes \/ epos_charset[b] = b)
      BY <3>1, CodesAre DEF non_unicode_alloc_code
    <3> QED
      BY <1>2, <3>2, EncAssumption, CodesAre DEF Expected
  <2> QED
    BY <2>1, <2>2
<1>6. Expected'
  BY <1>2, <1>4, <1>5 DEF Expected
<1>7. ASSUME k \in Ascii, c # k, epos_charset[k] # c PROVE FALSE
  <2>1. /\ epos_charset[k] = UNUSED /\ (\A i \in Codes : epos_charset[i] # c)
        /\ (epos_charset[b] = UNUSED => k = b)
        /\ (epos_charset[b] # UNUSED => k = Max({UNDEFINED} \cup Free))
    <3>1. do_alloc_code(c, b) # UNDEFINED
      BY <1>2, CodesAre
    <3> QED
      BY <1>2, <1>7, <3>1, AllocCode
  <2>2. IF b \in Ascii THEN c = b ELSE c \notin Ascii
    BY <1>2, AsciiItself
  <2>3. b \notin Ascii
    <3>1. CASE epos_charset[b] = UNUSED
      BY <1>7, <2>1, <2>2, <3>1
    <3>2. CASE epos_charset[b] # UNUSED
      BY <1>2, <1>3, <2>1, <2>2, <3>2 DEF Distinct
    <3> QED
      BY <3>1, <3>2
  <2>4. c \in Foreign /\ k = Max({UNDEFINED} \cup Free)
    BY <1>5, <1>7, <2>1, <2>2, <2>3
  <2>5. PICK i \in Beyond : epos_charset[i] = UNUSED
    BY <2>1, <2>4, OneLeft
  <2>6. i \in Free /\ Free \in SUBSET Codes
    BY <2>5 DEF Free, Beyond
  <2>7. k >= i /\ k \in Nat /\ i \in Nat
    BY <2>4, <2>6, GreatestCode
  <2>8. k < i
    BY <1>7 DEF EnoughCodes
  <2> QED
    BY <2>7, <2>8
<1>8. ~Overrun
  BY <1>2, <1>4, <1>7, CodesAre DEF Overrun
<1> QED
  BY <1>6, <1>8

\* If there are no more characters than codes for them, no charset or text can do anything to
\* the correspondence.
THEOREM CharactersUnified == OrdinaryMaps /\ EnoughCodes /\ EncSpec => []Unified
<1> SUFFICES ASSUME OrdinaryMaps, EnoughCodes PROVE EncSpec => []Unified
  OBVIOUS
<1>1. ASSUME EncInv, Expected, [EncNext]_encVars PROVE EncInv' /\ Expected'
  <2>1. CASE UNCHANGED encVars
    BY <1>1, <2>1, EncUnchanged DEF encVars, Expected
  <2>2. ASSUME NEW cs \in DOMAIN charset_list, NEW b \in Codes, Allocate(cs, b) PROVE EncInv' /\ Expected'
    BY <1>1, <2>2, NotOverrun, AllocateStep
  <2>3. ASSUME NEW name \in Names, NEW last \in {Max(Ascii), Max(Codes)}, LoadCharset(name, last)
        PROVE  EncInv' /\ Expected'
    <3>1. EncInv'
      BY <1>1, <2>3, LoadStep
    <3>2. charset_list' = Append(charset_list, name) /\ epos_charset' = epos_charset
      BY <2>3 DEF LoadCharset
    <3> DEFINE map == [b \in Codes |-> IF b <= last THEN Maps[name][b] ELSE UNDEFINED]
               n == Len(charset_list)
    <3>3. charsets' = Append(charsets, map)
      BY <2>3 DEF LoadCharset
    <3>4. \A b \in Codes : map[b] \in Ascii \cup {UNDEFINED} \cup Foreign
      BY DEF Foreign
    <3> HIDE DEF map
    <3>5. n \in Nat /\ Len(charsets) = n /\ Len(charset_list') = n + 1 /\ charsets'[n + 1] = map
          /\ \A d \in 1..n : charsets'[d] = charsets[d]
      <4>1. EncTypeOK
        BY <1>1 DEF EncInv
      <4> QED
        BY <3>2, <3>3, <4>1, AppendProperties DEF EncTypeOK
    <3>6. \A d \in 1..n + 1 : d \in 1..n \/ d = n + 1
      BY <3>5
    <3> HIDE DEF n
    <3>7. \A d \in 1..n + 1, b \in Codes : charsets'[d][b] \in Ascii \cup {UNDEFINED} \cup Foreign
      BY <1>1, <3>4, <3>5, <3>6 DEF Expected, n
    <3> QED
      BY <1>1, <3>1, <3>2, <3>5, <3>7 DEF Expected
  <2> QED
    BY <1>1, <2>1, <2>2, <2>3 DEF EncNext
<1>2. EncInit => Expected
  <2> SUFFICES ASSUME EncInit PROVE Expected
    OBVIOUS
  <2>1. epos_charset = Blank /\ charset_list = <<"default">> /\ charsets = <<Identity>>
    BY DEF EncInit
  <2>2. \A d \in 1..Len(charset_list) : d = 1
    BY <2>1
  <2> QED
    BY <2>1, <2>2, CodesAre DEF Expected, Blank, Identity
<1> QED
  BY <1>1, <1>2, InitEnc, EncInvUnified, PTL DEF EncSpec

-----------------------------------------------------------------------------
(* Options: the last of the items read so far that set one.                *)

Until(S, i) == {k \in S : k < i}
LastRead(items, S, i, else) == LastValue(items, Until(S, i), else)
LinesOf(items, name) == {k \in 1..Len(items) : items[k].name = name}
Kind(loc) == CASE Len(loc) = 0 -> "C" [] Len(loc) = 1 -> "L" [] Len(loc) = 2 -> "V"
Asked(loc, name) ==
  {k \in 1..Len(prog.cmd) : /\ prog.cmd[k].name = name
                            /\ Means(prog.cmd[k], Kind(loc))
                            /\ Len(loc) >= 1 => LangAt(k) = loc[1]
                            /\ Len(loc) = 2 => VoiceAt(k) = loc[2]}

LEMMA LineIs ==
  ASSUME NEW items, NEW name, NEW else
  PROVE  LineOf(items, name, else) = LastValue(items, LinesOf(items, name), else)
BY DEF LineOf, Given, LinesOf

LEMMA MaxIs ==
  ASSUME NEW S, S \subseteq Nat, NEW i \in S, \A k \in S : k <= i
  PROVE  Max(S) = i
<1>1. \A x \in S : (\A y \in S : x >= y) => x = i
  OBVIOUS
<1>2. i \in S /\ \A y \in S : i >= y
  OBVIOUS
<1> QED BY <1>1, <1>2 DEF Max

LEMMA ReadNext ==
  ASSUME NEW items, NEW m \in Nat, NEW S, S \subseteq 1..m, NEW i \in Nat, NEW else
  PROVE  LastRead(items, S, i + 1, else) =
           IF i \in S THEN Parsed(items[i].val) ELSE LastRead(items, S, i, else)
<1>1. CASE i \in S
  <2>1. Until(S, i + 1) \subseteq Nat /\ i \in Until(S, i + 1) /\ \A k \in Until(S, i + 1) : k <= i
    <3>1. \A k \in S : k \in Nat /\ (k < i + 1 => k <= i)
      OBVIOUS
    <3>2. i < i + 1 /\ S \subseteq Nat
      OBVIOUS
    <3> QED BY <1>1, <3>1, <3>2 DEF Until
  <2>2. Max(Until(S, i + 1)) = i
    BY <2>1, MaxIs
  <2> QED BY <1>1, <2>1, <2>2 DEF LastRead, LastValue
<1>2. CASE i \notin S
  <2>1. \A k \in S : k < i + 1 <=> k < i
    BY <1>2
  <2>2. Until(S, i + 1) = Until(S, i)
    BY <2>1 DEF Until
  <2> QED BY <1>2, <2>2 DEF LastRead
<1> QED BY <1>1, <1>2

LEMMA ReadNone ==
  ASSUME NEW items, NEW m \in Nat, NEW S, S \subseteq 1..m, NEW else
  PROVE  LastRead(items, S, 0, else) = else /\ LastRead(items, S, 1, else) = else
<1>1. \A k \in S : ~(k < 0) /\ ~(k < 1)
  OBVIOUS
<1>2. Until(S, 0) = {} /\ Until(S, 1) = {}
  BY <1>1 DEF Until
<1> QED BY <1>2 DEF LastRead, LastValue

LEMMA ReadAll ==
  ASSUME NEW items, NEW m \in Nat, NEW S, S \subseteq 1..m, NEW i \in Nat, i > m, NEW else
  PROVE  LastRead(items, S, i, else) = LastValue(items, S, else)
<1>1. \A k \in S : k < i
  OBVIOUS
<1>2. Until(S, i) = S
  BY <1>1 DEF Until
<1> QED BY <1>2 DEF LastRead

\* What the server and a language have in the end, if an argument has one layer at most.
OfServer(name) == LastValue(prog.cmd, Asked(<<>>, name), LineOf(prog.ini, name, LineOf(prog.fixed, name, Initial)))
OfLanguage(l, name) == LineOf(prog.file[l], name, OfServer(name))

\* Arguments are given once more after the files.
LEMMA Again ==
  ASSUME NEW items, NEW S, NEW x, NEW y
  PROVE  LastValue(items, S, LastValue(items, S, x)) = LastValue(items, S, x)
BY DEF LastValue

-----------------------------------------------------------------------------
(* What is loaded, in order.                                               *)

NL == Len(prog.langs)
LangName(a) == prog.langs[a]
VoiceNames(a) == prog.voices[prog.langs[a]]
NV(a) == Len(VoiceNames(a))

JobAt(k) ==
  IF k \in {1, 3, 5} THEN Cmd
  ELSE IF k = 2 THEN File("C", <<>>, prog.fixed)
  ELSE IF k = 4 THEN File("C", <<>>, prog.ini)
  ELSE IF k <= NL + 5 THEN Language(prog, LangName(k - 5))
  ELSE Cmd
VoiceJob(a, b) == Voice(prog, LangName(a), VoiceNames(a)[b])
JobSet == {JobAt(k) : k \in Nat} \cup UNION {{VoiceJob(a, b) : b \in Nat} : a \in Nat}

\* From the j-th job on, without voices; and from the b-th voice of language a on.
IsRest(js, j) ==
  /\ js \in Seq(JobSet) /\ Len(js) = NL + 7 - j
  /\ \A i \in 1..Len(js) : js[i] = JobAt(i + j - 1)
IsVoices(js, a, b) ==
  /\ js \in Seq(JobSet) /\ Len(js) = (NV(a) + 1 - b) + (NL + 1 - a)
  /\ \A i \in 1..Len(js) :
       js[i] = IF i <= NV(a) + 1 - b THEN VoiceJob(a, b + i - 1) ELSE JobAt(5 + a + i - (NV(a) + 1 - b))

LEMMA ItemsAre ==
  ASSUME NEW s, IsItems(s)
  PROVE  /\ s \in Seq(Range(s)) /\ Len(s) \in Nat /\ DOMAIN s = 1..Len(s)
         /\ \A i \in 1..Len(s) : s[i] \in Range(s)
         /\ \A i \in 1..Len(s) : s[i] \in [scope : {s[i].scope}, name : {s[i].name}, val : Saying({s[i].val.is})]
<1>1. s \in Seq(Range(s)) /\ Len(s) \in Nat /\ DOMAIN s = 1..Len(s)
  BY LenProperties DEF IsItems, IsSequence
<1>2. \A i \in 1..Len(s) : s[i] \in Range(s)
  BY <1>1 DEF Range
<1> QED BY <1>1, <1>2 DEF IsItems

LEMMA ProgramIs ==
  ASSUME StartAssumption, prog \in Programs
  PROVE  /\ IsItems(prog.cmd) /\ IsItems(prog.fixed) /\ IsItems(prog.ini)
         /\ NL \in Nat /\ \A a \in 1..NL :
              /\ LangName(a) \in Range(prog.langs) /\ LangName(a) \in DOMAIN prog.voices
              /\ IsItems(prog.file[LangName(a)])
              /\ NV(a) \in Nat
              /\ \A b \in 1..NV(a) : VoiceNames(a)[b] \in Range(VoiceNames(a)) /\ IsItems(prog.file[VoiceNames(a)[b]])
<1>1. /\ IsItems(prog.cmd) /\ IsItems(prog.fixed) /\ IsItems(prog.ini)
      /\ \A f \in DOMAIN prog.file : IsItems(prog.file[f])
      /\ IsSequence(prog.langs)
  BY DEF StartAssumption
<1>2. NL \in Nat /\ \A a \in 1..NL : LangName(a) \in Range(prog.langs)
  <2>1. NL \in Nat /\ DOMAIN prog.langs = 1..NL
    BY <1>1, LenProperties DEF IsSequence, NL
  <2> QED BY <2>1 DEF Range, LangName
<1>3. ASSUME NEW a \in 1..NL
      PROVE  /\ LangName(a) \in DOMAIN prog.voices /\ IsItems(prog.file[LangName(a)]) /\ NV(a) \in Nat
             /\ \A b \in 1..NV(a) : VoiceNames(a)[b] \in Range(VoiceNames(a)) /\ IsItems(prog.file[VoiceNames(a)[b]])
  <2>1. /\ LangName(a) \in DOMAIN prog.voices /\ LangName(a) \in DOMAIN prog.file
        /\ IsSequence(VoiceNames(a)) /\ Range(VoiceNames(a)) \subseteq DOMAIN prog.file
    BY <1>2 DEF StartAssumption, VoiceNames, LangName
  <2>2. NV(a) \in Nat /\ DOMAIN VoiceNames(a) = 1..NV(a)
    BY <2>1, LenProperties DEF IsSequence, NV
  <2>3. \A b \in 1..NV(a) : VoiceNames(a)[b] \in Range(VoiceNames(a))
    BY <2>2 DEF Range
  <2> QED BY <1>1, <2>1, <2>2, <2>3
<1> QED BY <1>1, <1>2, <1>3

LEMMA RestTail ==
  ASSUME NL \in Nat, NEW j \in 1..NL + 6, NEW js, IsRest(js, j)
  PROVE  /\ js # <<>> /\ Head(js) = JobAt(j) /\ Len(js) = NL + 7 - j /\ Tail(js) \in Seq(JobSet)
         /\ IsRest(Tail(js), j + 1)
<1>1. js \in Seq(JobSet) /\ Len(js) = NL + 7 - j /\ Len(js) \in Nat \ {0}
  BY DEF IsRest
<1>2. js # <<>> /\ 1 \in 1..Len(js) /\ Head(js) = js[1]
  BY <1>1, EmptySeq
<1>3. /\ Tail(js) \in Seq(JobSet) /\ Len(Tail(js)) = Len(js) - 1
      /\ \A i \in 1..Len(Tail(js)) : Tail(js)[i] = js[i + 1]
  BY <1>1, <1>2, HeadTailProperties
<1>4. Head(js) = JobAt(j)
  <2>1. 1 + j - 1 = j
    OBVIOUS
  <2> QED BY <1>2, <2>1 DEF IsRest
<1>5. Len(Tail(js)) = NL + 7 - (j + 1)
  BY <1>1, <1>3
<1>6. ASSUME NEW i \in 1..Len(Tail(js)) PROVE Tail(js)[i] = JobAt(i + (j + 1) - 1)
  <2>0. i \in Nat /\ i + 1 \in 1..Len(js)
    BY <1>1, <1>3
  <2>1. i + 1 \in 1..Len(js) /\ (i + 1) + j - 1 = i + (j + 1) - 1
    BY <2>0
  <2> QED BY <1>3, <2>1 DEF IsRest
<1> QED BY <1>1, <1>2, <1>3, <1>4, <1>5, <1>6 DEF IsRest

LEMMA VoicesTail ==
  ASSUME NL \in Nat, NEW a \in 1..NL, NV(a) \in Nat, NEW b \in 1..NV(a), NEW js, IsVoices(js, a, b)
  PROVE  /\ js # <<>> /\ Head(js) = VoiceJob(a, b) /\ Len(js) > 1
         /\ IsVoices(Tail(js), a, b + 1)
<1>1. js \in Seq(JobSet) /\ Len(js) = (NV(a) + 1 - b) + (NL + 1 - a) /\ Len(js) \in Nat \ {0} /\ Len(js) > 1
  BY DEF IsVoices
<1>2. js # <<>> /\ 1 \in 1..Len(js) /\ Head(js) = js[1]
  BY <1>1, EmptySeq
<1>3. /\ Tail(js) \in Seq(JobSet) /\ Len(Tail(js)) = Len(js) - 1
      /\ \A i \in 1..Len(Tail(js)) : Tail(js)[i] = js[i + 1]
  BY <1>1, <1>2, HeadTailProperties
<1>4. Head(js) = VoiceJob(a, b)
  <2>1. b + 1 - 1 = b /\ 1 <= NV(a) + 1 - b
    OBVIOUS
  <2> QED BY <1>2, <2>1 DEF IsVoices
<1>5. Len(Tail(js)) = (NV(a) + 1 - (b + 1)) + (NL + 1 - a)
  BY <1>1, <1>3
<1>6. ASSUME NEW i \in 1..Len(Tail(js))
      PROVE  Tail(js)[i] = IF i <= NV(a) + 1 - (b + 1) THEN VoiceJob(a, b + 1 + i - 1)
                           ELSE JobAt(5 + a + i - (NV(a) + 1 - (b + 1)))
  <2>0. i \in Nat /\ i + 1 \in 1..Len(js)
    BY <1>1, <1>3
  <2>1. /\ i + 1 \in 1..Len(js) /\ (i + 1 <= NV(a) + 1 - b <=> i <= NV(a) + 1 - (b + 1))
        /\ b + (i + 1) - 1 = b + 1 + i - 1
        /\ 5 + a + (i + 1) - (NV(a) + 1 - b) = 5 + a + i - (NV(a) + 1 - (b + 1))
    BY <2>0
  <2>2. js[i + 1] = IF i + 1 <= NV(a) + 1 - b THEN VoiceJob(a, b + (i + 1) - 1)
                    ELSE JobAt(5 + a + (i + 1) - (NV(a) + 1 - b))
    BY <2>1 DEF IsVoices
  <2> QED BY <1>3, <2>1, <2>2
<1> QED BY <1>1, <1>2, <1>3, <1>4, <1>5, <1>6 DEF IsVoices

LEMMA VoicesOver ==
  ASSUME NL \in Nat, NEW a \in 1..NL, NV(a) \in Nat, NEW js, IsVoices(js, a, NV(a) + 1)
  PROVE  IsRest(js, a + 6)
<1>1. NV(a) + 1 - (NV(a) + 1) = 0
  OBVIOUS
<1>2. js \in Seq(JobSet) /\ Len(js) = NL + 7 - (a + 6) /\ Len(js) \in Nat
  BY <1>1 DEF IsVoices
<1>3. ASSUME NEW i \in 1..Len(js) PROVE js[i] = JobAt(i + (a + 6) - 1)
  <2>1. ~(i <= 0) /\ 5 + a + i - 0 = i + (a + 6) - 1
    BY <1>2
  <2> QED BY <1>1, <2>1 DEF IsVoices
<1> QED BY <1>2, <1>3 DEF IsRest

\* After a language come its voices.
LEMMA VoicesNext ==
  ASSUME StartAssumption, prog \in Programs, NEW a \in 1..NL, NEW js, IsRest(js, a + 5)
  PROVE  IsVoices(Voices(LangName(a)) \o Tail(js), a, 1)
<1> DEFINE vs == Voices(LangName(a))
           rest == Tail(js)
<1>1. NL \in Nat /\ NV(a) \in Nat
  BY ProgramIs
<1>2. IsRest(rest, a + 6) /\ rest \in Seq(JobSet)
  <2>1. a + 5 \in 1..NL + 6 /\ (a + 5) + 1 = a + 6
    BY <1>1
  <2> QED BY <1>1, <2>1, RestTail
<1>3. vs = [i \in 1..NV(a) |-> VoiceJob(a, i)]
  BY DEF Voices, VoiceJob, NV, VoiceNames, LangName
<1>4. vs \in Seq(JobSet) /\ Len(vs) = NV(a) /\ \A i \in 1..NV(a) : vs[i] = VoiceJob(a, i)
  <2>1. \A i \in 1..NV(a) : VoiceJob(a, i) \in JobSet
    BY <1>1 DEF JobSet
  <2> QED BY <1>1, <1>3, <2>1
<1> HIDE DEF vs, rest
<1>5. /\ vs \o rest \in Seq(JobSet) /\ Len(vs \o rest) = NV(a) + Len(rest)
      /\ \A i \in 1..(NV(a) + Len(rest)) : (vs \o rest)[i] = IF i <= NV(a) THEN vs[i] ELSE rest[i - NV(a)]
  <2>1. /\ vs \o rest \in Seq(JobSet) /\ Len(vs \o rest) = Len(vs) + Len(rest)
        /\ \A i \in 1..(Len(vs) + Len(rest)) : (vs \o rest)[i] = IF i <= Len(vs) THEN vs[i] ELSE rest[i - Len(vs)]
    <3>1. vs \in Seq(JobSet) /\ rest \in Seq(JobSet)
      BY <1>2, <1>4
    <3> QED BY <3>1, ConcatProperties, Zenon
  <2>2. Len(vs) = NV(a)
    BY <1>4
  <2> QED BY <2>1, <2>2
<1>6. Len(rest) = NL + 1 - a /\ \A i \in 1..Len(rest) : rest[i] = JobAt(i + (a + 6) - 1)
  BY <1>1, <1>2 DEF IsRest
<1>7. Len(vs \o rest) = (NV(a) + 1 - 1) + (NL + 1 - a)
  BY <1>1, <1>5, <1>6
<1>8. ASSUME NEW i \in 1..Len(vs \o rest)
      PROVE  (vs \o rest)[i] = IF i <= NV(a) + 1 - 1 THEN VoiceJob(a, 1 + i - 1)
                               ELSE JobAt(5 + a + i - (NV(a) + 1 - 1))
  <2>1. (vs \o rest)[i] = IF i <= NV(a) THEN vs[i] ELSE rest[i - NV(a)]
    BY <1>5
  <2>2. CASE i <= NV(a)
    BY <1>1, <1>4, <2>1, <2>2
  <2>3. CASE ~(i <= NV(a))
    <3>0. Len(rest) \in Nat /\ i \in Nat /\ i <= NV(a) + Len(rest)
      BY <1>1, <1>5, <1>6
    <3>1. i - NV(a) \in 1..Len(rest) /\ (i - NV(a)) + (a + 6) - 1 = 5 + a + i - (NV(a) + 1 - 1)
      BY <1>1, <2>3, <3>0
    <3>2. (vs \o rest)[i] = JobAt((i - NV(a)) + (a + 6) - 1)
      BY <1>6, <2>1, <2>3, <3>1
    <3>3. ~(i <= NV(a) + 1 - 1)
      BY <1>1, <2>3, <3>0
    <3> QED BY <3>1, <3>2, <3>3
  <2> QED BY <2>2, <2>3
<1> QED BY <1>5, <1>7, <1>8 DEF IsVoices, vs, rest

LEMMA JobsAre == ASSUME StartAssumption, prog \in Programs PROVE IsRest(Jobs(prog), 1)
<1> DEFINE s == <<JobAt(1), JobAt(2), JobAt(3), JobAt(4), JobAt(5)>>
           ls == [i \in 1..NL |-> Language(prog, prog.langs[i])]
           e == <<JobAt(NL + 6)>>
<1>1. NL \in Nat
  BY ProgramIs
<1>2. Jobs(prog) = s \o ls \o e
  <2>1. JobAt(NL + 6) = Cmd
    BY <1>1 DEF JobAt
  <2> QED BY <2>1 DEF Jobs, JobAt, NL
<1>3. \A k \in Nat : JobAt(k) \in JobSet
  BY DEF JobSet
<1>4. s \in Seq(JobSet) /\ Len(s) = 5 /\ \A i \in 1..5 : s[i] = JobAt(i)
  BY <1>3
<1>5. ls \in Seq(JobSet) /\ Len(ls) = NL /\ \A i \in 1..NL : ls[i] = JobAt(i + 5)
  <2>1. \A i \in 1..NL : Language(prog, prog.langs[i]) = JobAt(i + 5) /\ i + 5 \in Nat
    BY <1>1 DEF JobAt, LangName
  <2> QED BY <1>1, <1>3, <2>1
<1>6. e \in Seq(JobSet) /\ Len(e) = 1 /\ e[1] = JobAt(NL + 6)
  BY <1>1, <1>3
<1> HIDE DEF s, ls, e
<1>7. /\ s \o ls \in Seq(JobSet) /\ Len(s \o ls) = NL + 5
      /\ \A i \in 1..NL + 5 : (s \o ls)[i] = IF i <= 5 THEN s[i] ELSE ls[i - 5]
  <2>1. /\ s \o ls \in Seq(JobSet) /\ Len(s \o ls) = Len(s) + Len(ls)
        /\ \A i \in 1..(Len(s) + Len(ls)) : (s \o ls)[i] = IF i <= Len(s) THEN s[i] ELSE ls[i - Len(s)]
    <3>1. s \in Seq(JobSet) /\ ls \in Seq(JobSet)
      BY <1>4, <1>5
    <3> QED BY <3>1, ConcatProperties, Zenon
  <2>2. Len(s) = 5 /\ Len(s) + Len(ls) = NL + 5
    BY <1>1, <1>4, <1>5
  <2> QED BY <2>1, <2>2
<1>8. /\ s \o ls \o e \in Seq(JobSet) /\ Len(s \o ls \o e) = NL + 6
      /\ \A i \in 1..NL + 6 : (s \o ls \o e)[i] = IF i <= NL + 5 THEN (s \o ls)[i] ELSE e[i - (NL + 5)]
  <2> DEFINE q == s \o ls
  <2>0. q \in Seq(JobSet) /\ Len(q) = NL + 5
    BY <1>7
  <2> HIDE DEF q
  <2>1. /\ q \o e \in Seq(JobSet) /\ Len(q \o e) = Len(q) + Len(e)
        /\ \A i \in 1..(Len(q) + Len(e)) : (q \o e)[i] = IF i <= Len(q) THEN q[i] ELSE e[i - Len(q)]
    <3>1. q \in Seq(JobSet) /\ e \in Seq(JobSet)
      BY <1>6, <2>0
    <3> QED BY <3>1, ConcatProperties, Zenon
  <2>2. Len(q) = NL + 5 /\ Len(q) + Len(e) = NL + 6
    BY <1>1, <1>6, <2>0
  <2>3. /\ q \o e \in Seq(JobSet) /\ Len(q \o e) = NL + 6
        /\ \A i \in 1..NL + 6 : (q \o e)[i] = IF i <= NL + 5 THEN q[i] ELSE e[i - (NL + 5)]
    BY <2>1, <2>2
  <2> QED BY <2>3 DEF q
<1>9. ASSUME NEW i \in 1..NL + 6 PROVE (s \o ls \o e)[i] = JobAt(i)
  <2>1. CASE i <= 5
    <3>1. i \in 1..5 /\ i \in 1..NL + 5 /\ i <= NL + 5
      BY <1>1, <2>1
    <3> QED BY <1>4, <1>7, <1>8, <2>1, <3>1
  <2>2. CASE i > 5 /\ i <= NL + 5
    <3>1. i - 5 \in 1..NL /\ (i - 5) + 5 = i
      BY <1>1, <2>2
    <3> QED BY <1>1, <1>5, <1>7, <1>8, <2>2, <3>1
  <2>3. CASE i = NL + 6
    <3>1. ~(i <= NL + 5) /\ i - (NL + 5) = 1
      BY <1>1, <2>3
    <3> QED BY <1>6, <1>8, <2>3, <3>1
  <2>4. i <= 5 \/ (i > 5 /\ i <= NL + 5) \/ i = NL + 6
    BY <1>1
  <2> QED BY <2>1, <2>2, <2>3, <2>4
<1>10. NL + 7 - 1 = NL + 6 /\ \A i \in 1..NL + 6 : i + 1 - 1 = i
  BY <1>1
<1> QED BY <1>2, <1>8, <1>9, <1>10 DEF IsRest

-----------------------------------------------------------------------------
(* Items.                                                                  *)

Scopes == {"", "C", "L", "V"}
ArgSet == [scope : Scopes, name : {it.name : it \in Range(prog.cmd)},
           val : Saying({it.val.is : it \in Range(prog.cmd)})]

\* What set_option() leaves of the command line: the one layer of a value may be gone.
ArgvOK ==
  /\ argv \in Seq(ArgSet) /\ Len(argv) = Len(prog.cmd)
  /\ \A i \in 1..Len(prog.cmd) :
       /\ argv[i].scope = prog.cmd[i].scope /\ argv[i].name = prog.cmd[i].name
       /\ argv[i].val.is = prog.cmd[i].val.is /\ argv[i].val.ascii = prog.cmd[i].val.ascii
       /\ Len(argv[i].val.layers) <= 1 /\ (prog.cmd[i].val.layers = <<>> => argv[i].val.layers = <<>>)
       /\ Parsed(argv[i].val) = Parsed(prog.cmd[i].val)

LEMMA OrdinaryArgs ==
  ASSUME StartAssumption, prog \in Programs, Ordinary(prog)
  PROVE  /\ Len(prog.cmd) \in Nat
         /\ \A i \in 1..Len(prog.cmd) :
              /\ prog.cmd[i] \in ArgSet /\ prog.cmd[i] \in Range(prog.cmd)
              /\ Len(prog.cmd[i].val.layers) <= 1 /\ AnOption(prog.cmd[i])
              /\ prog.cmd[i].name = "language" => prog.cmd[i].val.is # ""
              /\ prog.cmd[i].name # "unit_levels" /\ ~(prog.cmd[i].scope = "C" /\ prog.cmd[i].name = "p")
<1>1. /\ prog.cmd \in Seq(Range(prog.cmd)) /\ Len(prog.cmd) \in Nat
      /\ \A i \in 1..Len(prog.cmd) :
           /\ prog.cmd[i] \in Range(prog.cmd)
           /\ prog.cmd[i] \in [scope : {prog.cmd[i].scope}, name : {prog.cmd[i].name},
                               val : Saying({prog.cmd[i].val.is})]
  BY ProgramIs, ItemsAre
<1>2. ASSUME NEW i \in 1..Len(prog.cmd)
      PROVE  /\ Len(prog.cmd[i].val.layers) <= 1 /\ AnOption(prog.cmd[i])
             /\ prog.cmd[i].name = "language" => prog.cmd[i].val.is # ""
             /\ prog.cmd[i].name # "unit_levels" /\ ~(prog.cmd[i].scope = "C" /\ prog.cmd[i].name = "p")
  BY <1>1 DEF Ordinary
<1>3. ASSUME NEW i \in 1..Len(prog.cmd) PROVE prog.cmd[i] \in ArgSet
  <2>1. prog.cmd[i].scope \in Scopes
    BY <1>2 DEF AnOption, Scopes
  <2> DEFINE it == prog.cmd[i]
  <2>2. it \in Range(prog.cmd) /\ it \in [scope : {it.scope}, name : {it.name}, val : Saying({it.val.is})]
    BY <1>1
  <2>3. it.scope \in Scopes
    BY <2>1
  <2> HIDE DEF it
  <2>4. it \in ArgSet
    <3>1. it.val \in Saying({x.val.is : x \in Range(prog.cmd)})
      BY <2>2 DEF Saying
    <3> QED BY <2>2, <2>3, <3>1 DEF ArgSet
  <2> QED BY <2>4 DEF it
<1> QED BY <1>1, <1>2, <1>3

LEMMA ParsedOnce ==
  ASSUME NEW X, NEW v \in Saying(X), Len(v.layers) <= 1
  PROVE  /\ Parsed(v) \in Saying(X) /\ Parsed(v).is = v.is /\ Parsed(v).ascii = v.ascii /\ Parsed(v).layers = <<>>
         /\ Parsed(Parsed(v)) = Parsed(v)
<1>1. v = [is |-> v.is, layers |-> v.layers, ascii |-> v.ascii] /\ v.layers \in Seq(Layer) /\ v.is \in X /\ v.ascii \in BOOLEAN
  BY DEF Saying
<1>2. Parsed(v) = [is |-> v.is, layers |-> <<>>, ascii |-> v.ascii]
  <2>1. CASE v.layers = <<>>
    BY <1>1, <2>1 DEF Parsed
  <2>2. CASE v.layers # <<>>
    <3>1. Len(v.layers) \in Nat /\ Len(v.layers) # 0
      BY <1>1, <2>2, EmptySeq, LenProperties
    <3>2. Len(v.layers) = 1
      <4>1. \A n \in Nat : n # 0 /\ n <= 1 => n = 1
        OBVIOUS
      <4> QED BY <3>1, <4>1
    <3>3. Tail(v.layers) \in Seq(Layer) /\ Len(Tail(v.layers)) = 0
      BY <1>1, <2>2, <3>2, HeadTailProperties
    <3>4. Tail(v.layers) = <<>>
      BY <3>3, EmptySeq
    <3>5. Parsed(v) = [v EXCEPT !.layers = <<>>]
      BY <2>2, <3>4 DEF Parsed
    <3> QED BY <1>1, <3>5
  <2> QED BY <2>1, <2>2
<1>3. Parsed(v).layers = <<>>
  BY <1>2
<1>4. Parsed(Parsed(v)) = Parsed(v)
  BY <1>3 DEF Parsed
<1>5. <<>> \in Seq(Layer)
  BY EmptySeq
<1>6. Parsed(v) \in Saying(X)
  BY <1>1, <1>2, <1>5 DEF Saying
<1> QED BY <1>2, <1>4, <1>6

\* However often a value is parsed, it loses the one layer that it has.
LEMMA OftenOnce ==
  ASSUME NEW X, NEW v \in Saying(X), Len(v.layers) <= 1, NEW times \in Nat \ {0}
  PROVE  Often(v, times) = Parsed(v)
<1>1. v.layers \in Seq(Layer) /\ Len(v.layers) \in Nat
  BY LenProperties DEF Saying
<1>2. SubSeq(v.layers, times + 1, Len(v.layers)) = <<>>
  <2>1. Len(v.layers) < times + 1 /\ times + 1 \in Int /\ Len(v.layers) \in Int
    BY <1>1
  <2> QED BY <2>1, SubSeqEmpty
<1>3. Often(v, times) = [v EXCEPT !.layers = <<>>]
  BY <1>2 DEF Often
<1>4. v = [is |-> v.is, layers |-> v.layers, ascii |-> v.ascii]
  BY DEF Saying
<1>5. Often(v, times) = [is |-> v.is, layers |-> <<>>, ascii |-> v.ascii]
  BY <1>3, <1>4
<1>6. Parsed(v).is = v.is /\ Parsed(v).ascii = v.ascii /\ Parsed(v).layers = <<>> /\ Parsed(v) \in Saying(X)
  BY ParsedOnce
<1>7. Parsed(v) = [is |-> Parsed(v).is, layers |-> Parsed(v).layers, ascii |-> Parsed(v).ascii]
  BY <1>6 DEF Saying
<1> QED BY <1>5, <1>6, <1>7

LEMMA ArgumentIs ==
  ASSUME StartAssumption, prog \in Programs, Ordinary(prog), NEW loc, NEW name, NEW times \in Nat \ {0}, NEW else
  PROVE  Argument(loc, name, times, else) = LastValue(prog.cmd, Asked(loc, name), else)
<1> DEFINE S == Asked(loc, name)
           k == Max(S)
<1>1. Argument(loc, name, times, else) = IF S = {} THEN else ELSE Often(prog.cmd[k].val, times)
  BY DEF Argument, Given, Asked, Kind
<1>2. Len(prog.cmd) \in Nat /\ S \subseteq 1..Len(prog.cmd)
  BY OrdinaryArgs DEF Asked
<1> HIDE DEF S
<1>3. ASSUME S # {} PROVE k \in 1..Len(prog.cmd)
  <2>1. S \in SUBSET Nat /\ \A x \in S : x <= Len(prog.cmd)
    BY <1>2
  <2>2. Max(S) \in S
    BY <1>2, <1>3, <2>1, Greatest
  <2> QED BY <1>2, <2>2
<1>4. ASSUME S # {} PROVE Often(prog.cmd[k].val, times) = Parsed(prog.cmd[k].val)
  <2> DEFINE v == prog.cmd[k].val
  <2>1. prog.cmd[k] \in ArgSet /\ Len(v.layers) <= 1
    BY <1>3, <1>4, OrdinaryArgs
  <2>2. v \in Saying({it.val.is : it \in Range(prog.cmd)})
    BY <2>1 DEF ArgSet
  <2> HIDE DEF v
  <2>3. Often(v, times) = Parsed(v)
    BY <2>1, <2>2, OftenOnce DEF v
  <2> QED BY <2>3 DEF v
<1> QED BY <1>1, <1>4 DEF LastValue, S

LEMMA ArgvSpent ==
  ASSUME ArgvOK, NEW i \in 1..Len(argv), argv' = [argv EXCEPT ![i].val = Parsed(@)], prog' = prog,
         Len(prog.cmd) \in Nat
  PROVE  ArgvOK'
<1> DEFINE e == [argv[i] EXCEPT !.val = Parsed(@)]
<1>1. /\ argv[i] \in ArgSet /\ i \in 1..Len(prog.cmd)
      /\ argv[i].val \in Saying({it.val.is : it \in Range(prog.cmd)}) /\ Len(argv[i].val.layers) <= 1
  <2>1. argv[i] \in ArgSet /\ i \in 1..Len(prog.cmd)
    BY ElementOfSeq DEF ArgvOK
  <2> QED BY <2>1 DEF ArgvOK, ArgSet
<1>2. /\ e.scope = argv[i].scope /\ e.name = argv[i].name /\ e.val = Parsed(argv[i].val)
      /\ e \in ArgSet /\ e.val.is = argv[i].val.is /\ e.val.ascii = argv[i].val.ascii /\ e.val.layers = <<>>
      /\ Parsed(e.val) = Parsed(argv[i].val)
  <2>1. e.scope = argv[i].scope /\ e.name = argv[i].name /\ e.val = Parsed(argv[i].val)
    BY <1>1 DEF ArgSet
  <2>2. /\ Parsed(argv[i].val) \in Saying({it.val.is : it \in Range(prog.cmd)})
        /\ Parsed(argv[i].val).is = argv[i].val.is /\ Parsed(argv[i].val).ascii = argv[i].val.ascii
        /\ Parsed(argv[i].val).layers = <<>>
        /\ Parsed(Parsed(argv[i].val)) = Parsed(argv[i].val)
    <3> DEFINE v == argv[i].val
               X == {it.val.is : it \in Range(prog.cmd)}
    <3>1. v \in Saying(X) /\ Len(v.layers) <= 1
      BY <1>1
    <3> HIDE DEF v, X
    <3>2. /\ Parsed(v) \in Saying(X) /\ Parsed(v).is = v.is /\ Parsed(v).ascii = v.ascii /\ Parsed(v).layers = <<>>
          /\ Parsed(Parsed(v)) = Parsed(v)
      BY <3>1, ParsedOnce
    <3> QED BY <3>2 DEF v, X
  <2>3. e \in ArgSet
    BY <1>1, <2>2 DEF ArgSet
  <2> QED BY <2>1, <2>2, <2>3
<1>3. argv' = [argv EXCEPT ![i] = e]
  OBVIOUS
<1> HIDE DEF e
<1>4. /\ argv' \in Seq(ArgSet) /\ Len(argv') = Len(argv)
      /\ \A k \in 1..Len(argv) : argv'[k] = IF k = i THEN e ELSE argv[k]
  <2>1. argv \in Seq(ArgSet) /\ i \in 1..Len(argv) /\ e \in ArgSet
    BY <1>2 DEF ArgvOK
  <2>2. argv' \in Seq(ArgSet) /\ Len(argv') = Len(argv)
    BY <1>3, <2>1, ExceptSeq
  <2>3. DOMAIN argv = 1..Len(argv)
    BY <2>1, LenProperties
  <2>4. \A k \in 1..Len(argv) : argv'[k] = IF k = i THEN e ELSE argv[k]
    BY <1>3, <2>3
  <2> QED BY <2>2, <2>4
<1>5. ASSUME NEW k \in 1..Len(prog.cmd)
      PROVE  /\ argv'[k].scope = prog.cmd[k].scope /\ argv'[k].name = prog.cmd[k].name
             /\ argv'[k].val.is = prog.cmd[k].val.is /\ argv'[k].val.ascii = prog.cmd[k].val.ascii
             /\ Len(argv'[k].val.layers) <= 1 /\ (prog.cmd[k].val.layers = <<>> => argv'[k].val.layers = <<>>)
             /\ Parsed(argv'[k].val) = Parsed(prog.cmd[k].val)
  <2>1. Len(<<>>) <= 1
    OBVIOUS
  <2> QED BY <1>2, <1>4, <2>1 DEF ArgvOK
<1>6. ArgSet' = ArgSet
  BY DEF ArgSet
<1> QED BY <1>4, <1>5, <1>6 DEF ArgvOK

LEMMA MeansScope ==
  ASSUME NEW it, AnOption(it), NEW scope \in {"C", "L", "V"}, it.name \in NamesOf(scope)
  PROVE  Means(it, scope) <=> ScopeOf(it) = scope
<1>1. CASE it.scope # ""
  BY <1>1 DEF Means, ScopeOf
<1>2. CASE it.scope = "" /\ scope = "C"
  BY <1>2 DEF Means, ScopeOf, NamesOf
<1>3. CASE it.scope = "" /\ scope = "L"
  BY <1>3 DEF Means, ScopeOf, NamesOf
<1>4. CASE it.scope = "" /\ scope = "V"
  BY <1>4 DEF Means, ScopeOf, NamesOf
<1> QED BY <1>1, <1>2, <1>3, <1>4

\* An option exists where it is meant.
LEMMA OptionThere ==
  ASSUME NEW it, AnOption(it), it.name # "s"
  PROVE  \/ ScopeOf(it) = "C" /\ it.name \in NamesOf("C") \cup {"language"}
         \/ ScopeOf(it) = "L" /\ it.name \in NamesOf("L") \cup {"voice"}
         \/ ScopeOf(it) = "V" /\ it.name \in NamesOf("V")
<1>1. CASE it.scope \in {"L", "C", "V"}
  BY <1>1 DEF AnOption, ScopeOf
<1>2. CASE it.scope = ""
  BY <1>2 DEF AnOption, ScopeOf, NamesOf
<1> QED BY <1>1, <1>2 DEF AnOption

LEMMA ValueSet ==
  ASSUME NEW f, NEW g, NEW at \in DOMAIN f, NEW nm \in DOMAIN f[at], NEW x, g = [f EXCEPT ![at][nm] = x]
  PROVE  /\ DOMAIN g = DOMAIN f /\ \A loc \in DOMAIN f : DOMAIN g[loc] = DOMAIN f[loc]
         /\ \A loc \in DOMAIN f : \A name \in DOMAIN f[loc] :
              g[loc][name] = IF loc = at /\ name = nm THEN x ELSE f[loc][name]
  OBVIOUS

\* What set_option() does, if the levels are made before anything is said of them.
Sets(at, item) ==
  /\ DOMAIN val' = DOMAIN val /\ \A loc \in DOMAIN val : DOMAIN val'[loc] = DOMAIN val[loc]
  /\ \A loc \in DOMAIN val : \A name \in DOMAIN val[loc] :
       val'[loc][name] = IF loc = at /\ name = item.name THEN Parsed(item.val) ELSE val[loc][name]

LEMMA SetIs ==
  ASSUME NEW at \in DOMAIN val, Item.name \in DOMAIN val[at], SetAt(at),
         Item.name = "unit_levels" =>
           /\ slots # MaxSlots /\ val[at]["p[1]"] = val[at]["p"] /\ "p[1]" \in DOMAIN val[at]
  PROVE  /\ Sets(at, Item) /\ argv' = Spent /\ pos' = pos + 1
         /\ UNCHANGED <<prog, jobs, chosen, outcome>>
         /\ slots' = IF Item.name = "unit_levels" THEN slots + 1 ELSE slots
<1>1. CASE Item.name # "unit_levels"
  <2>1. val' = [val EXCEPT ![at][Item.name] = Parsed(Item.val)]
    BY <1>1 DEF SetAt
  <2>2. Sets(at, Item)
    BY <2>1, ValueSet DEF Sets
  <2> QED BY <1>1, <2>2 DEF SetAt
<1>2. CASE Item.name = "unit_levels"
  <2> DEFINE w == [val[at] EXCEPT !["unit_levels"] = Parsed(Item.val)]
  <2>1. val' = [val EXCEPT ![at] = WithLevels(w)] /\ slots' = slots + 1
    BY <1>2 DEF SetAt, SetLevels
  <2>2. WithLevels(w) = [w EXCEPT !["p[1]"] = w["p"]]
    BY DEF WithLevels
  <2>3. w["p[1]"] = w["p"]
    <3>1. w["p"] = val[at]["p"] /\ w["p[1]"] = val[at]["p[1]"]
      BY <1>2
    <3> QED BY <1>2, <3>1
  <2>4. WithLevels(w) = w
    <3>1. "p[1]" \in DOMAIN w /\ w = [x \in DOMAIN w |-> w[x]]
      BY <1>2
    <3> HIDE DEF w
    <3> QED BY <2>2, <2>3, <3>1
  <2>5. val' = [val EXCEPT ![at][Item.name] = Parsed(Item.val)]
    BY <1>2, <2>1, <2>4
  <2>6. Sets(at, Item)
    BY <2>5, ValueSet DEF Sets
  <2> QED BY <1>2, <2>1, <2>6 DEF SetAt
<1> QED BY <1>1, <1>2

-----------------------------------------------------------------------------
(* The options of the server: five jobs.                                   *)

ServerItems(j) == IF j \in {1, 3, 5} THEN prog.cmd ELSE IF j = 2 THEN prog.fixed ELSE prog.ini
ServerSet(j, name) == IF j \in {1, 3, 5} THEN Asked(<<>>, name) ELSE LinesOf(ServerItems(j), name)

\* Values after the first, the second, .. job.
After1(name) == LastValue(prog.cmd, Asked(<<>>, name), Initial)
After2(name) == LastValue(prog.fixed, LinesOf(prog.fixed, name), After1(name))
After3(name) == LastValue(prog.cmd, Asked(<<>>, name), After2(name))
After4(name) == LastValue(prog.ini, LinesOf(prog.ini, name), After3(name))
After5(name) == LastValue(prog.cmd, Asked(<<>>, name), After4(name))
ServerFrom(j, name) ==
  IF j = 1 THEN Initial ELSE IF j = 2 THEN After1(name) ELSE IF j = 3 THEN After2(name)
  ELSE IF j = 4 THEN After3(name) ELSE IF j = 5 THEN After4(name) ELSE After5(name)

Levels == CHOOSE u \in 1..Len(prog.fixed) : prog.fixed[u].name = "unit_levels"
FirstChoice == [lang |-> 1, voice |-> [l \in DOMAIN prog.voices |-> 1]]

ServerInv(j) ==
  /\ IsRest(jobs, j) /\ chosen = FirstChoice
  /\ pos \in 0..Len(ServerItems(j)) + 1
  /\ slots = IF j = 1 \/ (j = 2 /\ pos <= Levels) THEN 0 ELSE 1
  /\ \A k \in 1..Len(prog.cmd) : j > 1 \/ k < pos => prog.cmd[k].name # "p[1]"
  /\ DOMAIN val = {<<>>} /\ DOMAIN val[<<>>] = NamesOf("C")
  /\ \A name \in NamesOf("C") :
       val[<<>>][name] = LastRead(ServerItems(j), ServerSet(j, name), pos, ServerFrom(j, name))

Common == prog \in Programs /\ Ordinary(prog) /\ ArgvOK

LEMMA ServerSame ==
  ASSUME prog' = prog
  PROVE  /\ NL' = NL /\ Levels' = Levels /\ FirstChoice' = FirstChoice /\ JobSet' = JobSet
         /\ \A k : JobAt(k)' = JobAt(k)
         /\ \A j : ServerItems(j)' = ServerItems(j)
         /\ \A loc, name : Asked(loc, name)' = Asked(loc, name)
         /\ \A j, name : ServerSet(j, name)' = ServerSet(j, name) /\ ServerFrom(j, name)' = ServerFrom(j, name)
<1>1. \A k : JobAt(k)' = JobAt(k)
  BY DEF JobAt, NL, LangName, Language
<1>2. \A a, b : VoiceJob(a, b)' = VoiceJob(a, b)
  BY DEF VoiceJob, Voice, LangName, VoiceNames
<1>3. JobSet' = JobSet
  BY <1>1, <1>2 DEF JobSet
<1>4. \A loc, name : Asked(loc, name)' = Asked(loc, name)
  BY DEF Asked, LangAt, VoiceAt
<1>5. \A j : ServerItems(j)' = ServerItems(j)
  BY DEF ServerItems
<1>6. \A j, name : ServerSet(j, name)' = ServerSet(j, name)
  BY <1>4, <1>5 DEF ServerSet
<1>7. \A j, name : ServerFrom(j, name)' = ServerFrom(j, name)
  BY <1>4 DEF ServerFrom, After1, After2, After3, After4, After5
<1> QED BY <1>1, <1>3, <1>4, <1>5, <1>6, <1>7 DEF NL, Levels, FirstChoice

LEMMA ValuesSame ==
  ASSUME prog' = prog
  PROVE  /\ \A name : OfServer(name)' = OfServer(name)
         /\ \A l, name : OfLanguage(l, name)' = OfLanguage(l, name)
         /\ \A loc, name : Wanted(loc, name)' = Wanted(loc, name)
<1>1. ASSUME NEW name PROVE OfServer(name)' = OfServer(name)
  <2>1. Asked(<<>>, name)' = Asked(<<>>, name)
    BY ServerSame
  <2> QED BY <2>1 DEF OfServer
<1>2. ASSUME NEW l, NEW name PROVE OfLanguage(l, name)' = OfLanguage(l, name)
  BY <1>1 DEF OfLanguage
<1>3. ASSUME NEW loc, NEW name PROVE Wanted(loc, name)' = Wanted(loc, name)
  <2>1. \A items, nm, else : LineOf(items, nm, else)' = LineOf(items, nm, else)
    BY LineIs DEF LineOf, Given, LastValue
  <2>2. \A l, nm, times, else : Argument(l, nm, times, else)' = Argument(l, nm, times, else)
    <3>1. \A l, nm : Asked(l, nm)' = Asked(l, nm)
      BY ServerSame
    <3>2. \A l, nm, times, else :
            Argument(l, nm, times, else) =
              IF Asked(l, nm) = {} THEN else ELSE Often(prog.cmd[Max(Asked(l, nm))].val, times)
      BY DEF Argument, Given, Asked, Kind
    <3>3. \A l, nm, times, else :
            Argument(l, nm, times, else)' =
              IF Asked(l, nm)' = {} THEN else ELSE Often(prog'.cmd[Max(Asked(l, nm)')].val, times)
      BY DEF Argument, Given, Asked, Kind
    <3> QED BY <3>1, <3>2, <3>3
  <2>3. \A nm, times : ServerValue(nm, times)' = ServerValue(nm, times)
    BY <2>1, <2>2 DEF ServerValue
  <2>4. \A l, nm : LanguageValue(l, nm)' = LanguageValue(l, nm)
    BY <2>1, <2>3 DEF LanguageValue
  <2> QED BY <2>1, <2>2, <2>3, <2>4 DEF Wanted
<1> QED BY <1>1, <1>2, <1>3

LEMMA ServerSetIn ==
  ASSUME StartAssumption, prog \in Programs, NEW j \in 1..5
  PROVE  Len(ServerItems(j)) \in Nat /\ \A name : ServerSet(j, name) \subseteq 1..Len(ServerItems(j))
<1>1. Len(ServerItems(j)) \in Nat
  BY ProgramIs, ItemsAre DEF ServerItems
<1>2. ASSUME NEW name PROVE ServerSet(j, name) \subseteq 1..Len(ServerItems(j))
  BY DEF ServerSet, ServerItems, Asked, LinesOf
<1> QED BY <1>1, <1>2

LEMMA ServerBegins ==
  ASSUME StartAssumption, prog \in Programs, NEW j \in 1..5, NEW name
  PROVE  /\ LastRead(ServerItems(j), ServerSet(j, name), 0, ServerFrom(j, name)) = ServerFrom(j, name)
         /\ LastRead(ServerItems(j), ServerSet(j, name), 1, ServerFrom(j, name)) = ServerFrom(j, name)
<1>1. Len(ServerItems(j)) \in Nat /\ ServerSet(j, name) \subseteq 1..Len(ServerItems(j))
  BY ServerSetIn
<1> QED BY <1>1, ReadNone

LEMMA ServerNext ==
  ASSUME NEW j \in 1..5, NEW name
  PROVE  LastValue(ServerItems(j), ServerSet(j, name), ServerFrom(j, name)) = ServerFrom(j + 1, name)
<1>1. CASE j = 1
  BY <1>1 DEF ServerItems, ServerSet, ServerFrom, After1
<1>2. CASE j = 2
  BY <1>2 DEF ServerItems, ServerSet, ServerFrom, After2
<1>3. CASE j = 3
  BY <1>3 DEF ServerItems, ServerSet, ServerFrom, After3
<1>4. CASE j = 4
  BY <1>4 DEF ServerItems, ServerSet, ServerFrom, After4
<1>5. CASE j = 5
  BY <1>5 DEF ServerItems, ServerSet, ServerFrom, After5
<1> QED BY <1>1, <1>2, <1>3, <1>4, <1>5

LEMMA ServerEnd ==
  ASSUME NEW name
  PROVE  ServerFrom(6, name) = OfServer(name)
<1> DEFINE A == Asked(<<>>, name)
           F == LinesOf(prog.fixed, name)
           I == LinesOf(prog.ini, name)
<1>1. ServerFrom(6, name) =
        LastValue(prog.cmd, A, LastValue(prog.ini, I, LastValue(prog.cmd, A,
          LastValue(prog.fixed, F, LastValue(prog.cmd, A, Initial)))))
  BY DEF ServerFrom, After1, After2, After3, After4, After5
<1>2. OfServer(name) = LastValue(prog.cmd, A, LastValue(prog.ini, I, LastValue(prog.fixed, F, Initial)))
  BY LineIs DEF OfServer
<1> HIDE DEF A, F, I
<1>3. CASE A = {}
  BY <1>1, <1>2, <1>3 DEF LastValue
<1>4. CASE A # {}
  BY <1>1, <1>2, <1>4 DEF LastValue
<1> QED BY <1>3, <1>4

LEMMA ServerJob ==
  ASSUME StartAssumption, Common, NEW j \in 1..5, IsRest(jobs, j)
  PROVE  /\ jobs # <<>> /\ Len(jobs) \in Nat /\ Len(jobs) > 1 /\ Job = JobAt(j) /\ Job.at = <<>>
         /\ Job.scope = IF j \in {1, 3, 5} THEN "" ELSE "C"
         /\ Items = IF j \in {1, 3, 5} THEN argv ELSE ServerItems(j)
         /\ Len(Items) = Len(ServerItems(j))
         /\ \A i \in 1..Len(Items) : /\ Items[i].name = ServerItems(j)[i].name
                                     /\ Items[i].scope = ServerItems(j)[i].scope
                                     /\ Parsed(Items[i].val) = Parsed(ServerItems(j)[i].val)
<1>1. NL \in Nat /\ j \in 1..NL + 6
  BY ProgramIs DEF Common
<1>2. jobs # <<>> /\ Head(jobs) = JobAt(j) /\ Len(jobs) = NL + 7 - j
  BY <1>1, RestTail
<1>3. Job = JobAt(j) /\ Len(jobs) \in Nat /\ Len(jobs) > 1
  BY <1>1, <1>2 DEF Job
<1>4. CASE j \in {1, 3, 5}
  <2>1. Job.at = <<>> /\ Job.scope = "" /\ Items = argv
    BY <1>3, <1>4 DEF JobAt, Cmd, Items
  <2> QED BY <1>2, <1>3, <1>4, <2>1 DEF ServerItems, Common, ArgvOK
<1>5. CASE j \in {2, 4}
  <2>1. Job = File("C", <<>>, ServerItems(j))
    BY <1>3, <1>5 DEF JobAt, ServerItems
  <2>2. Job.at = <<>> /\ Job.scope = "C" /\ Job.items = ServerItems(j)
    BY <2>1 DEF File
  <2>3. Items = ServerItems(j)
    BY <2>2 DEF Items
  <2> QED BY <1>2, <1>3, <1>5, <2>2, <2>3
<1>6. j \in {1, 3, 5} \/ j \in {2, 4}
  OBVIOUS
<1> QED BY <1>4, <1>5, <1>6

LEMMA ServerOpen ==
  ASSUME StartAssumption, Common, NEW j \in 1..5, ServerInv(j), Open
  PROVE  ServerInv(j)' /\ UNCHANGED <<prog, argv, outcome>>
<1>1. Len(jobs) > 1 /\ Len(jobs) \in Nat /\ Job.scope \notin {"L", "V"}
  BY ServerJob DEF ServerInv
<1>2. pos = 0 /\ pos' = 1 /\ UNCHANGED <<val, outcome, prog, jobs, argv, chosen, slots>>
  <2>1. ~NoVoice
    <3>1. Len(jobs) # 1
      BY <1>1
    <3> QED BY <3>1 DEF NoVoice
  <2> QED BY <1>1, <2>1 DEF Open
<1>3. Len(ServerItems(j)) \in Nat /\ \A name : ServerSet(j, name) \subseteq 1..Len(ServerItems(j))
  BY ServerSetIn DEF Common
<1>4. \A name \in NamesOf("C") : LastRead(ServerItems(j), ServerSet(j, name), 1, ServerFrom(j, name)) =
                                 LastRead(ServerItems(j), ServerSet(j, name), 0, ServerFrom(j, name))
  BY ServerBegins DEF Common
<1>5. slots = IF j = 1 \/ (j = 2 /\ 1 <= Levels) THEN 0 ELSE 1
  <2>1. CASE j = 2
    <3>1. Levels \in 1..Len(prog.fixed) /\ Len(prog.fixed) \in Nat
      BY ProgramIs, ItemsAre DEF Common, Ordinary, Levels
    <3> QED BY <1>2, <2>1, <3>1 DEF ServerInv
  <2> QED BY <1>2, <2>1 DEF ServerInv
<1>6. 1 \in 0..Len(ServerItems(j)) + 1
  BY <1>3
<1>7. IsRest(jobs, j)'
  BY <1>2, ServerSame DEF ServerInv, IsRest
<1>8. \A k \in 1..Len(prog.cmd) : ~(k < 1)
  OBVIOUS
<1> QED BY <1>2, <1>4, <1>5, <1>6, <1>7, <1>8, ServerSame DEF ServerInv

\* After the last job of the server its values are settled.
Ready == DOMAIN val = {<<>>} /\ DOMAIN val[<<>>] = NamesOf("C") /\ \A name \in NamesOf("C") : val[<<>>][name] = OfServer(name)

LEMMA ServerClose ==
  ASSUME StartAssumption, Common, NEW j \in 1..5, ServerInv(j), Close
  PROVE  /\ UNCHANGED <<prog, argv, outcome>>
         /\ IF j < 5 THEN ServerInv(j + 1)'
            ELSE IsRest(jobs, 6)' /\ pos' = 0 /\ slots' = 1 /\ chosen' = FirstChoice /\ Ready'
<1>1. /\ Len(jobs) > 1 /\ Len(jobs) \in Nat /\ Job.scope # "L" /\ Len(Items) = Len(ServerItems(j))
  BY ServerJob DEF ServerInv
<1>2. Len(ServerItems(j)) \in Nat /\ \A name : ServerSet(j, name) \subseteq 1..Len(ServerItems(j))
  BY ServerSetIn DEF Common
<1>3. pos' = 0 /\ UNCHANGED <<prog, argv, val, chosen, slots, outcome>> /\ jobs' = <<>> \o Tail(jobs)
  BY <1>1 DEF Close
<1>4. pos \in Nat /\ pos > Len(ServerItems(j))
  BY <1>1, <1>2 DEF Close, ServerInv
<1>5. \A name \in NamesOf("C") : val[<<>>][name] = ServerFrom(j + 1, name)
  BY <1>2, <1>4, ReadAll, ServerNext DEF ServerInv
<1>6. IsRest(jobs', j + 1) /\ j + 1 \in 1..NL + 6
  <2>1. NL \in Nat /\ j \in 1..NL + 6 /\ j + 1 \in 1..NL + 6
    BY ProgramIs DEF Common
  <2>2. Tail(jobs) \in Seq(JobSet) /\ IsRest(Tail(jobs), j + 1)
    BY <2>1, RestTail DEF ServerInv
  <2>3. jobs' = Tail(jobs)
    BY <1>3, <2>2, ConcatEmptySeq
  <2> QED BY <2>1, <2>2, <2>3
<1>7. IsRest(jobs, j + 1)'
  BY <1>3, <1>6, ServerSame DEF IsRest
<1>8. slots = IF j = 1 THEN 0 ELSE 1
  <2>1. CASE j = 2
    <3>1. Levels \in 1..Len(prog.fixed) /\ Len(prog.fixed) \in Nat
      BY ProgramIs, ItemsAre DEF Common, Ordinary, Levels
    <3>2. ServerItems(j) = prog.fixed
      BY <2>1 DEF ServerItems
    <3> QED BY <1>4, <2>1, <3>1, <3>2 DEF ServerInv
  <2> QED BY <2>1 DEF ServerInv
<1>11. \A k \in 1..Len(prog.cmd) : prog.cmd[k].name # "p[1]"
  <2>1. CASE j = 1
    <3>1. \A k \in 1..Len(prog.cmd) : k < pos
      BY <1>4, <2>1 DEF ServerItems
    <3> QED BY <3>1 DEF ServerInv
  <2> QED BY <2>1 DEF ServerInv
<1>9. CASE j < 5
  <2>1. j + 1 \in 1..5
    BY <1>9
  <2>2. Len(ServerItems(j + 1)) \in Nat /\ \A name : ServerSet(j + 1, name) \subseteq 1..Len(ServerItems(j + 1))
    BY <2>1, ServerSetIn DEF Common
  <2>3. \A name \in NamesOf("C") :
          val[<<>>][name] = LastRead(ServerItems(j + 1), ServerSet(j + 1, name), 0, ServerFrom(j + 1, name))
    <3>1. \A name : LastRead(ServerItems(j + 1), ServerSet(j + 1, name), 0, ServerFrom(j + 1, name)) = ServerFrom(j + 1, name)
      BY <2>1, ServerBegins DEF Common
    <3> QED BY <1>5, <3>1
  <2>4. slots = IF j + 1 = 1 \/ (j + 1 = 2 /\ 0 <= Levels) THEN 0 ELSE 1
    <3>1. CASE j = 1
      <4>1. Levels \in 1..Len(prog.fixed) /\ Len(prog.fixed) \in Nat
        BY ProgramIs, ItemsAre DEF Common, Ordinary, Levels
      <4> QED BY <1>8, <3>1, <4>1
    <3>2. CASE j # 1
      <4>1. j + 1 # 1 /\ j + 1 # 2
        BY <3>2
      <4> QED BY <1>8, <3>2, <4>1
    <3> QED BY <3>1, <3>2
  <2>5. 0 \in 0..Len(ServerItems(j + 1)) + 1
    BY <2>2
  <2> QED BY <1>3, <1>7, <1>9, <1>11, <2>3, <2>4, <2>5, ServerSame DEF ServerInv
<1>10. CASE ~(j < 5)
  <2>1. j = 5 /\ j + 1 = 6
    BY <1>10
  <2>2. \A name : OfServer(name)' = ServerFrom(6, name)
    BY <1>3, ServerEnd, ValuesSame
  <2>3. Ready'
    BY <1>3, <1>5, <2>1, <2>2 DEF Ready, ServerInv
  <2> QED BY <1>3, <1>7, <1>8, <1>10, <2>1, <2>3 DEF ServerInv
<1> QED BY <1>3, <1>9, <1>10

LEMMA LevelsAre ==
  ASSUME StartAssumption, Common
  PROVE  /\ Len(prog.fixed) \in Nat /\ Levels \in 1..Len(prog.fixed)
         /\ \A i \in 1..Len(prog.fixed) : /\ prog.fixed[i].name = "unit_levels" <=> i = Levels
                                          /\ prog.fixed[i].name \in {"p", "p[1]"} => Levels < i
<1>1. PICK u \in 1..Len(prog.fixed) : \A i \in 1..Len(prog.fixed) :
        /\ prog.fixed[i].name = "unit_levels" <=> i = u
        /\ prog.fixed[i].name \in {"p", "p[1]"} => u < i
  BY DEF Common, Ordinary
<1>2. Levels = u
  BY <1>1 DEF Levels
<1> QED BY <1>1, <1>2, ProgramIs, ItemsAre DEF Common

\* Arguments that are understood in no pass, or not in the first one.
LEMMA Insensible ==
  ASSUME NEW i \in 1..Len(prog.cmd), prog.cmd[i].name \in {"s", "p[1]", "unit_levels"} \/ ~prog.cmd[i].val.ascii
  PROVE  ~Sensible
BY DEF Sensible

\* One more item of those that belong to the server is read.
LEMMA ServerRead ==
  ASSUME StartAssumption, Common, NEW j \in 1..5, ServerInv(j), pos \in 1..Len(ServerItems(j)), pos' = pos + 1,
         UNCHANGED <<prog, jobs, chosen>>,
         slots' = IF j = 1 \/ (j = 2 /\ pos' <= Levels) THEN 0 ELSE 1,
         j = 1 => prog.cmd[pos].name # "p[1]",
         DOMAIN val' = {<<>>}, DOMAIN val'[<<>>] = NamesOf("C"),
         \A name \in NamesOf("C") :
           val'[<<>>][name] = IF pos \in ServerSet(j, name) THEN Parsed(ServerItems(j)[pos].val) ELSE val[<<>>][name]
  PROVE  ServerInv(j)'
<1>1. Len(ServerItems(j)) \in Nat /\ \A name : ServerSet(j, name) \subseteq 1..Len(ServerItems(j))
  BY ServerSetIn DEF Common
<1>2. pos + 1 \in 0..Len(ServerItems(j)) + 1 /\ pos \in Nat
  BY <1>1
<1>3. ASSUME NEW name \in NamesOf("C")
      PROVE  val'[<<>>][name] = LastRead(ServerItems(j), ServerSet(j, name), pos + 1, ServerFrom(j, name))
  <2>1. LastRead(ServerItems(j), ServerSet(j, name), pos + 1, ServerFrom(j, name)) =
          IF pos \in ServerSet(j, name) THEN Parsed(ServerItems(j)[pos].val)
          ELSE LastRead(ServerItems(j), ServerSet(j, name), pos, ServerFrom(j, name))
    BY <1>1, <1>2, ReadNext
  <2> QED BY <2>1 DEF ServerInv
<1>4. ASSUME NEW k \in 1..Len(prog.cmd), j > 1 \/ k < pos + 1 PROVE prog.cmd[k].name # "p[1]"
  <2>1. j > 1 \/ k < pos \/ (k = pos /\ j = 1)
    BY <1>2, <1>4
  <2> QED BY <2>1 DEF ServerInv
<1>5. IsRest(jobs, j)'
  BY ServerSame DEF ServerInv, IsRest
<1> QED BY <1>2, <1>3, <1>4, <1>5, ServerSame DEF ServerInv

LEMMA ServerArg ==
  ASSUME StartAssumption, Common, NEW j \in 1..5, ServerInv(j), ReadArgument
  PROVE  /\ prog' = prog /\ ArgvOK'
         /\ (outcome' = "died" /\ ~Sensible) \/ (outcome' = outcome /\ ServerInv(j)')
<1> DEFINE it == prog.cmd[pos]
<1>1. /\ j \in {1, 3, 5} /\ Job.scope = "" /\ Items = argv /\ ServerItems(j) = prog.cmd
      /\ pos \in 1..Len(argv) /\ Len(argv) = Len(prog.cmd) /\ Len(prog.cmd) \in Nat
  <2>1. Job.scope = "" /\ Items = argv /\ Len(Items) = Len(ServerItems(j)) /\ j \in {1, 3, 5}
    BY ServerJob DEF ServerInv, ReadArgument, Reading
  <2>2. pos \in 1..Len(argv)
    BY <2>1 DEF ReadArgument, Reading
  <2> QED BY <2>1, <2>2, ProgramIs, ItemsAre DEF ServerItems, Common
<1>2. /\ Item.name = it.name /\ Item.scope = it.scope /\ Parsed(Item.val) = Parsed(it.val) /\ Item = argv[pos]
      /\ pos \in 1..Len(prog.cmd) /\ AnOption(it) /\ it.name # "unit_levels" /\ Item.val.ascii = it.val.ascii
  BY <1>1, OrdinaryArgs DEF Item, Common, ArgvOK
<1>3. ScopeOf(Item) = ScopeOf(it) /\ ~Loaded
  <2>1. ScopeOf(Item) = ScopeOf(it)
    BY <1>2 DEF ScopeOf
  <2>2. Len(<<>>) # 1
    OBVIOUS
  <2> QED BY <2>1, <2>2 DEF Loaded, ServerInv
<1>4. CASE ~(Encoded(Item) /\ Understood(Item))
  <2>1. Die
    BY <1>4 DEF ReadArgument
  <2>2. it.name \in {"s", "p[1]"} \/ ~it.val.ascii
    <3>0. CASE ~Encoded(Item)
      BY <1>2, <3>0 DEF Encoded
    <3>1. CASE it.name = "s"
      BY <3>1
    <3>2. CASE Encoded(Item) /\ it.name # "s" /\ it.name # "p[1]"
      <4>1. \/ ScopeOf(it) = "C" /\ it.name \in NamesOf("C") \cup {"language"}
            \/ ScopeOf(it) = "L" /\ it.name \in NamesOf("L") \cup {"voice"}
            \/ ScopeOf(it) = "V" /\ it.name \in NamesOf("V")
        BY <1>2, <3>2, OptionThere
      <4>2. Understood(Item)
        BY <1>2, <1>3, <3>2, <4>1 DEF Understood
      <4> QED BY <1>4, <3>2, <4>2
    <3> QED BY <3>0, <3>1, <3>2
  <2>3. ~Sensible
    BY <1>2, <2>2, Insensible
  <2>4. ArgvOK'
    BY <2>1 DEF Die, Common, ArgvOK, ArgSet
  <2> QED BY <2>1, <2>3, <2>4 DEF Die
<1>5. CASE Encoded(Item) /\ Understood(Item)
  <2>0. j = 1 => it.name # "p[1]"
    BY <1>2, <1>5 DEF Understood, ServerInv
  <2>1. slots = IF j = 1 \/ (j = 2 /\ pos + 1 <= Levels) THEN 0 ELSE 1
    <3>1. j # 2
      <4>1. \A i \in {1, 3, 5} : i # 2
        OBVIOUS
      <4>2. j \in {1, 3, 5}
        BY <1>1
      <4> QED BY <4>1, <4>2
    <3> QED BY <3>1 DEF ServerInv
  <2>2. \A name : pos \in ServerSet(j, name) <=> it.name = name /\ Means(it, "C")
    <3>1. \A name : ServerSet(j, name) = Asked(<<>>, name)
      BY <1>1 DEF ServerSet
    <3>2. Kind(<<>>) = "C" /\ ~(Len(<<>>) >= 1) /\ Len(<<>>) # 2
      BY DEF Kind
    <3> QED BY <1>2, <3>1, <3>2 DEF Asked
  <2>3. CASE Skipped
    <3>1. pos' = pos + 1 /\ UNCHANGED <<prog, jobs, argv, val, chosen, slots, outcome>>
      BY <1>5, <2>3 DEF ReadArgument
    <3>2. ASSUME NEW name \in NamesOf("C") PROVE pos \notin ServerSet(j, name)
      <4>1. ASSUME pos \in ServerSet(j, name) PROVE FALSE
        <5>1. it.name = name /\ Means(it, "C")
          BY <2>2, <4>1
        <5>2. ScopeOf(it) = "C"
          BY <1>2, <5>1, MeansScope
        <5>3. it.name = "language"
          BY <1>2, <1>3, <2>3, <5>2 DEF Skipped
        <5> QED BY <5>1, <5>3 DEF NamesOf
      <4> QED BY <4>1
    <3>3. ServerInv(j)'
      <4>1. \A name \in NamesOf("C") :
              val'[<<>>][name] = IF pos \in ServerSet(j, name) THEN Parsed(ServerItems(j)[pos].val) ELSE val[<<>>][name]
        BY <3>1, <3>2
      <4>2. DOMAIN val' = {<<>>} /\ DOMAIN val'[<<>>] = NamesOf("C")
        BY <3>1 DEF ServerInv
      <4> QED BY <1>1, <2>0, <2>1, <3>1, <4>1, <4>2, ServerRead
    <3>4. ArgvOK'
      BY <3>1 DEF Common, ArgvOK, ArgSet
    <3> QED BY <3>1, <3>3, <3>4
  <2>4. CASE ~Skipped
    <3>1. ScopeOf(it) = "C" /\ it.name # "language" /\ it.name \in NamesOf("C") /\ it.name # "voice"
      <4>1. ScopeOf(it) = "C" /\ it.name # "language"
        BY <1>2, <1>3, <2>4 DEF Skipped
      <4>2. it.name \in NamesOf("C")
        BY <1>2, <1>3, <1>5, <4>1 DEF Understood
      <4> QED BY <4>1, <4>2 DEF NamesOf
    <3>2. SetAt(<<>>)
      BY <1>2, <1>3, <1>5, <2>4, <3>1 DEF ReadArgument
    <3>3. /\ Sets(<<>>, Item) /\ argv' = Spent /\ pos' = pos + 1
          /\ UNCHANGED <<prog, jobs, chosen, outcome>> /\ slots' = slots
      <4>1. <<>> \in DOMAIN val /\ Item.name \in DOMAIN val[<<>>]
        BY <1>2, <3>1 DEF ServerInv
      <4> QED BY <1>2, <3>2, <4>1, SetIs
    <3>4. ArgvOK'
      <4>1. argv' = [argv EXCEPT ![pos].val = Parsed(@)]
        BY <1>1, <3>3 DEF Spent
      <4> QED BY <1>1, <3>3, <4>1, ArgvSpent DEF Common
    <3>5. Means(it, "C")
      BY <1>2, <3>1, MeansScope
    <3>6. ServerInv(j)'
      <4>1. DOMAIN val' = {<<>>} /\ DOMAIN val'[<<>>] = NamesOf("C")
        BY <3>3 DEF ServerInv, Sets
      <4>2. ASSUME NEW name \in NamesOf("C")
            PROVE  val'[<<>>][name] = IF pos \in ServerSet(j, name) THEN Parsed(ServerItems(j)[pos].val) ELSE val[<<>>][name]
        <5>1. val'[<<>>][name] = IF name = Item.name THEN Parsed(Item.val) ELSE val[<<>>][name]
          BY <3>3 DEF ServerInv, Sets
        <5>2. pos \in ServerSet(j, name) <=> name = Item.name
          BY <1>2, <2>2, <3>5
        <5> QED BY <1>1, <1>2, <5>1, <5>2
      <4> QED BY <1>1, <2>0, <2>1, <3>3, <4>1, <4>2, ServerRead
    <3> QED BY <3>3, <3>4, <3>6
  <2> QED BY <2>3, <2>4
<1> QED BY <1>4, <1>5

LEMMA ServerLine ==
  ASSUME StartAssumption, Common, NEW j \in 1..5, ServerInv(j), ReadLine
  PROVE  prog' = prog /\ ArgvOK' /\ outcome' = outcome /\ ServerInv(j)'
<1>1. /\ j \in {2, 4} /\ Job.scope = "C" /\ Job.at = <<>> /\ Items = ServerItems(j)
      /\ pos \in 1..Len(ServerItems(j)) /\ Item = ServerItems(j)[pos] /\ ServerItems(j)[pos] \in Range(ServerItems(j))
  <2>1. Job.scope = "C" /\ Job.at = <<>> /\ j \notin {1, 3, 5} /\ Items = ServerItems(j)
    BY ServerJob DEF ServerInv, ReadLine, Reading
  <2>2. pos \in 1..Len(ServerItems(j)) /\ j \in {2, 4}
    BY <2>1 DEF ReadLine, Reading
  <2>3. ServerItems(j)[pos] \in Range(ServerItems(j))
    BY <2>1, <2>2, ProgramIs, ItemsAre DEF ServerItems, Common
  <2> QED BY <2>1, <2>2, <2>3 DEF Item
<1>2. /\ Len(prog.fixed) \in Nat /\ Levels \in 1..Len(prog.fixed)
      /\ \A i \in 1..Len(prog.fixed) : /\ prog.fixed[i].name = "unit_levels" <=> i = Levels
                                       /\ prog.fixed[i].name \in {"p", "p[1]"} => Levels < i
  BY LevelsAre
<1>3. /\ Item.name \in NamesOf("C") /\ (Item.name = "p[1]" => slots > 0)
      /\ Item.name = "unit_levels" <=> j = 2 /\ pos = Levels
  <2>1. CASE j = 2
    <3>1. ServerItems(j) = prog.fixed
      BY <2>1 DEF ServerItems
    <3>0. Item = prog.fixed[pos] /\ pos \in 1..Len(prog.fixed)
      BY <1>1, <3>1
    <3>2. Item.name \in NamesOf("C")
      BY <1>1, <3>1 DEF Common, Ordinary, Has
    <3>3. Item.name = "p[1]" => slots = 1
      <4>1. Item.name = "p[1]" => Levels < pos
        BY <1>2, <3>0
      <4>2. pos \in Nat /\ Levels \in Nat
        BY <1>1, <1>2, <3>1
      <4>3. Levels < pos => ~(pos <= Levels)
        BY <4>2
      <4> QED BY <2>1, <4>1, <4>3 DEF ServerInv
    <3>4. Item.name = "unit_levels" <=> pos = Levels
      <4>1. prog.fixed[pos].name = "unit_levels" <=> pos = Levels
        BY <1>2, <3>0
      <4>2. Item.name = prog.fixed[pos].name
        BY <3>0
      <4> QED BY <4>1, <4>2
    <3> QED BY <2>1, <3>2, <3>3, <3>4
  <2>2. CASE j = 4
    <3>1. ServerItems(j) = prog.ini
      BY <2>2 DEF ServerItems
    <3>2. Item.name \in NamesOf("C") \ {"unit_levels"}
      BY <1>1, <3>1 DEF Common, Ordinary, Has
    <3>3. slots = 1
      BY <2>2 DEF ServerInv
    <3> QED BY <2>2, <3>2, <3>3
  <2> QED BY <1>1, <2>1, <2>2
<1>4. SetAt(<<>>)
  BY <1>1, <1>3 DEF ReadLine, ServerInv
<1>5. ASSUME Item.name = "unit_levels"
      PROVE  slots # MaxSlots /\ val[<<>>]["p[1]"] = val[<<>>]["p"] /\ "p[1]" \in DOMAIN val[<<>>]
  <2>1. j = 2 /\ pos = Levels /\ slots = 0 /\ ServerItems(j) = prog.fixed
    BY <1>3, <1>5 DEF ServerInv, ServerItems
  <2>2. ASSUME NEW name \in {"p", "p[1]"} PROVE val[<<>>][name] = Initial
    <3>1. Until(LinesOf(prog.fixed, name), pos) = {}
      BY <1>2, <2>1, <2>2 DEF Until, LinesOf
    <3>2. val[<<>>][name] = After1(name)
      <4>1. name \in NamesOf("C")
        BY DEF NamesOf
      <4>2. val[<<>>][name] = LastRead(prog.fixed, LinesOf(prog.fixed, name), pos, After1(name))
        BY <2>1, <4>1 DEF ServerInv, ServerSet, ServerFrom
      <4> QED BY <3>1, <4>2 DEF LastRead, LastValue
    <3>3. Asked(<<>>, name) = {}
      <4>1. ASSUME NEW k \in Asked(<<>>, name) PROVE FALSE
        <5>1. k \in 1..Len(prog.cmd) /\ prog.cmd[k].name = name /\ Means(prog.cmd[k], "C")
          BY DEF Asked, Kind
        <5>2. prog.cmd[k].scope = "C"
          BY <5>1 DEF Means
        <5>3. name # "p"
          BY <5>1, <5>2, OrdinaryArgs DEF Common
        <5>4. name # "p[1]"
          BY <2>1, <5>1 DEF ServerInv
        <5> QED BY <5>3, <5>4
      <4> QED BY <4>1
    <3> QED BY <3>2, <3>3 DEF After1, LastValue
  <2> QED BY <2>1, <2>2 DEF StartAssumption, ServerInv, NamesOf
<1>6. /\ Sets(<<>>, Item) /\ argv' = Spent /\ pos' = pos + 1
      /\ UNCHANGED <<prog, jobs, chosen, outcome>>
      /\ slots' = IF Item.name = "unit_levels" THEN slots + 1 ELSE slots
  BY <1>3, <1>4, <1>5, SetIs DEF ServerInv
<1>7. argv' = argv
  BY <1>1, <1>6 DEF Spent
<1>8. ArgvOK'
  BY <1>6, <1>7 DEF Common, ArgvOK, ArgSet
<1>9. slots' = IF j = 1 \/ (j = 2 /\ pos' <= Levels) THEN 0 ELSE 1
  <2>1. CASE j = 2
    BY <1>1, <1>2, <1>3, <1>6, <2>1 DEF ServerInv
  <2>2. CASE j = 4
    BY <1>3, <1>6, <2>2 DEF ServerInv
  <2> QED BY <1>1, <2>1, <2>2
<1>10. ServerInv(j)'
  <2>1. DOMAIN val' = {<<>>} /\ DOMAIN val'[<<>>] = NamesOf("C")
    BY <1>6 DEF ServerInv, Sets
  <2>2. ASSUME NEW name \in NamesOf("C")
        PROVE  val'[<<>>][name] = IF pos \in ServerSet(j, name) THEN Parsed(ServerItems(j)[pos].val) ELSE val[<<>>][name]
    <3>1. val'[<<>>][name] = IF name = Item.name THEN Parsed(Item.val) ELSE val[<<>>][name]
      BY <1>6 DEF ServerInv, Sets
    <3>2. pos \in ServerSet(j, name) <=> name = Item.name
      BY <1>1 DEF ServerSet, LinesOf
    <3> QED BY <1>1, <3>1, <3>2
  <2> QED BY <1>1, <1>6, <1>9, <2>1, <2>2, ServerRead
<1> QED BY <1>6, <1>8, <1>10

-----------------------------------------------------------------------------
(* Languages and voices.                                                   *)

OptionsOf(loc) ==
  IF Len(loc) = 0 THEN NamesOf("C") ELSE IF Len(loc) = 1 THEN NamesOf("L") ELSE NamesOf("V") \cup SoftNames(prog, loc[1])
FileOf(loc) == IF Len(loc) = 1 THEN prog.file[loc[1]] ELSE prog.file[loc[2]]
FileFrom(loc, name) ==
  IF Len(loc) = 1 THEN OfServer(name) ELSE IF name = "s" THEN Initial ELSE OfLanguage(loc[1], name)
FileValue(loc, name) ==
  IF Len(loc) = 0 THEN OfServer(name)
  ELSE LastValue(FileOf(loc), LinesOf(FileOf(loc), name), FileFrom(loc, name))

\* Who has values: the server, the languages before the a-th and their voices; and the a-th
\* language and its voices before the b-th.
Earlier(a) ==
  {<<>>} \cup UNION {{<<LangName(i)>>} \cup {<<LangName(i), VoiceNames(i)[k]>> : k \in 1..NV(i)} : i \in 1..a - 1}
Locs(a, b) == Earlier(a) \cup {<<LangName(a)>>} \cup {<<LangName(a), VoiceNames(a)[k]>> : k \in 1..b - 1}

Settled(D) ==
  \A loc \in D : DOMAIN val[loc] = OptionsOf(loc) /\ \A name \in OptionsOf(loc) : val[loc][name] = FileValue(loc, name)

\* The file of cur is read.
FileState(D, cur) ==
  /\ DOMAIN val = (IF pos = 0 THEN D ELSE D \cup {cur}) /\ Settled(D)
  /\ pos \in 0..Len(FileOf(cur)) + 1 /\ slots = 1 /\ chosen = FirstChoice
  /\ pos # 0 =>
       /\ DOMAIN val[cur] = OptionsOf(cur)
       /\ \A name \in OptionsOf(cur) :
            val[cur][name] = LastRead(FileOf(cur), LinesOf(FileOf(cur), name), pos, FileFrom(cur, name))

IsFile(D, cur) ==
  /\ cur \notin D /\ ((Len(cur) = 1 /\ <<>> \in D) \/ (Len(cur) = 2 /\ <<cur[1]>> \in D))
  /\ jobs # <<>> /\ Len(jobs) # 1
  /\ Job.at = cur /\ Job.scope = (IF Len(cur) = 1 THEN "L" ELSE "V") /\ Job.items = FileOf(cur)
  /\ IsItems(FileOf(cur)) /\ Has(FileOf(cur), OptionsOf(cur))

LEMMA FileSame ==
  ASSUME prog' = prog
  PROVE  /\ \A loc : OptionsOf(loc)' = OptionsOf(loc) /\ FileOf(loc)' = FileOf(loc)
         /\ \A loc, name : /\ FileFrom(loc, name)' = FileFrom(loc, name)
                           /\ FileValue(loc, name)' = FileValue(loc, name)
<1>1. \A loc : OptionsOf(loc)' = OptionsOf(loc) /\ FileOf(loc)' = FileOf(loc)
  BY DEF OptionsOf, FileOf
<1>2. \A loc, name : FileFrom(loc, name)' = FileFrom(loc, name)
  BY ValuesSame DEF FileFrom
<1>3. ASSUME NEW loc, NEW name PROVE FileValue(loc, name)' = FileValue(loc, name)
  BY <1>1, <1>2, ValuesSame DEF FileValue
<1> QED BY <1>1, <1>2, <1>3

LEMMA LinesIn ==
  ASSUME NEW items, IsItems(items), NEW name
  PROVE  Len(items) \in Nat /\ LinesOf(items, name) \subseteq 1..Len(items)
BY ItemsAre DEF LinesOf

LEMMA LineBegins ==
  ASSUME NEW items, IsItems(items), NEW name, NEW else
  PROVE  /\ LastRead(items, LinesOf(items, name), 0, else) = else
         /\ LastRead(items, LinesOf(items, name), 1, else) = else
<1>1. Len(items) \in Nat /\ LinesOf(items, name) \subseteq 1..Len(items)
  BY LinesIn
<1> QED BY <1>1, ReadNone

LEMMA FileOpen ==
  ASSUME NEW D, NEW cur, IsFile(D, cur), FileState(D, cur), Open
  PROVE  FileState(D, cur)' /\ UNCHANGED <<prog, jobs, argv, outcome>>
<1>1. ~NoVoice /\ Job.at = cur
  BY DEF NoVoice, IsFile
<1>2. /\ pos = 0 /\ pos' = 1 /\ UNCHANGED <<prog, jobs, argv, chosen, slots, outcome>>
      /\ val' = CASE Job.scope = "L" -> Begun(Job.at, LanguageStart)
                  [] Job.scope = "V" -> Begun(Job.at, VoiceStart(Job.at[1]))
                  [] OTHER -> val
  BY <1>1 DEF Open
<1>3. DOMAIN val = D /\ cur \notin D /\ Settled(D)
  BY <1>2 DEF FileState, IsFile
<1>4. PICK start : /\ val' = Begun(cur, start) /\ DOMAIN start = OptionsOf(cur)
                   /\ \A name \in OptionsOf(cur) : start[name] = FileFrom(cur, name)
  <2>1. CASE Len(cur) = 1
    <3>1. val' = Begun(cur, LanguageStart)
      BY <1>1, <1>2, <2>1 DEF IsFile
    <3>2. <<>> \in D /\ OptionsOf(cur) = NamesOf("L") /\ OptionsOf(<<>>) = NamesOf("C")
      BY <2>1 DEF IsFile, OptionsOf
    <3>3. \A name \in NamesOf("L") : name \in NamesOf("C")
      BY DEF NamesOf
    <3>4. \A name \in NamesOf("C") : val[<<>>][name] = OfServer(name)
      BY <1>3, <3>2 DEF Settled, FileValue
    <3>5. \A name \in NamesOf("L") : LanguageStart[name] = FileFrom(cur, name)
      BY <2>1, <3>3, <3>4 DEF LanguageStart, FileFrom
    <3>6. DOMAIN LanguageStart = NamesOf("L")
      BY DEF LanguageStart
    <3> QED BY <3>1, <3>2, <3>5, <3>6
  <2>2. CASE Len(cur) = 2
    <3> DEFINE l == cur[1]
    <3>1. val' = Begun(cur, VoiceStart(l))
      BY <1>1, <1>2, <2>2 DEF IsFile
    <3>2. /\ <<l>> \in D /\ OptionsOf(cur) = NamesOf("V") \cup SoftNames(prog, l) /\ OptionsOf(<<l>>) = NamesOf("L")
      BY <2>2 DEF IsFile, OptionsOf
    <3>3. /\ \A name \in NamesOf("V") : name \in NamesOf("L") /\ name # "s"
          /\ \A name \in SoftNames(prog, l) : name = "s"
      BY DEF NamesOf, SoftNames
    <3>4. \A name \in NamesOf("L") : val[<<l>>][name] = OfLanguage(l, name)
      <4>1. \A name : FileValue(<<l>>, name) = OfLanguage(l, name)
        BY LineIs DEF FileValue, FileOf, FileFrom, OfLanguage
      <4> QED BY <1>3, <3>2, <4>1 DEF Settled
    <3>5. \A name \in OptionsOf(cur) : VoiceStart(l)[name] = FileFrom(cur, name)
      BY <2>2, <3>2, <3>3, <3>4 DEF VoiceStart, FileFrom
    <3>6. DOMAIN VoiceStart(l) = OptionsOf(cur)
      BY <3>2 DEF VoiceStart
    <3> QED BY <3>1, <3>5, <3>6
  <2> QED BY <2>1, <2>2 DEF IsFile
<1>5. DOMAIN val' = D \cup {cur} /\ val'[cur] = start /\ \A loc \in D : val'[loc] = val[loc]
  BY <1>3, <1>4 DEF Begun
<1>6. Settled(D)'
  BY <1>2, <1>3, <1>5, FileSame DEF Settled
<1>7. ASSUME NEW name \in OptionsOf(cur)
      PROVE  val'[cur][name] = LastRead(FileOf(cur), LinesOf(FileOf(cur), name), 1, FileFrom(cur, name))
  <2>1. val'[cur][name] = FileFrom(cur, name)
    BY <1>4, <1>5
  <2>2. IsItems(FileOf(cur))
    BY DEF IsFile
  <2> QED BY <2>1, <2>2, LineBegins
<1>8. 1 \in 0..Len(FileOf(cur)) + 1
  BY LinesIn DEF IsFile
<1>9. \A name : LinesOf(FileOf(cur), name)' = LinesOf(FileOf(cur), name)
  BY <1>2, FileSame DEF LinesOf
<1>10. DOMAIN val'[cur] = OptionsOf(cur)
  BY <1>4, <1>5
<1> HIDE DEF LastRead
<1>11. FileOf(cur)' = FileOf(cur) /\ OptionsOf(cur)' = OptionsOf(cur) /\ \A name : FileFrom(cur, name)' = FileFrom(cur, name)
  BY <1>2, FileSame
<1>12. FirstChoice' = FirstChoice /\ slots' = slots /\ chosen' = chosen /\ slots = 1 /\ chosen = FirstChoice
  BY <1>2, ServerSame DEF FileState
<1> QED BY <1>2, <1>5, <1>6, <1>7, <1>8, <1>9, <1>10, <1>11, <1>12 DEF FileState

LEMMA FileLine ==
  ASSUME StartAssumption, Common, NEW D, NEW cur, IsFile(D, cur), FileState(D, cur), ReadLine
  PROVE  FileState(D, cur)' /\ UNCHANGED <<prog, jobs, argv, outcome>>
<1> DEFINE items == FileOf(cur)
<1>1. Len(items) \in Nat /\ \A name : LinesOf(items, name) \subseteq 1..Len(items)
  BY LinesIn DEF IsFile
<1>2. Job.scope \in {"L", "V"} /\ Job.at = cur /\ Items = items /\ Item = items[pos] /\ pos \in 1..Len(items)
  <2>1. Job.scope \in {"L", "V"} /\ Job.at = cur /\ Job.items = items
    BY DEF IsFile
  <2>2. Items = items
    BY <2>1 DEF Items
  <2> QED BY <2>1, <2>2 DEF Item, ReadLine, Reading
<1>3. Item.name \in OptionsOf(cur) /\ Item.name # "unit_levels"
  <2>1. items[pos] \in Range(items)
    BY <1>2, ItemsAre DEF IsFile
  <2>2. Item.name \in OptionsOf(cur)
    BY <1>2, <2>1 DEF IsFile, Has
  <2>3. "unit_levels" \notin NamesOf("L") \cup NamesOf("V") \cup SoftNames(prog, cur[1])
    BY DEF NamesOf, SoftNames
  <2>4. OptionsOf(cur) \subseteq NamesOf("L") \cup NamesOf("V") \cup SoftNames(prog, cur[1])
    BY DEF IsFile, OptionsOf
  <2> QED BY <2>2, <2>3, <2>4
<1>4. /\ pos # 0 /\ DOMAIN val = D \cup {cur} /\ DOMAIN val[cur] = OptionsOf(cur) /\ slots = 1 /\ cur \notin D
      /\ pos \in Nat
  BY <1>1, <1>2 DEF FileState, IsFile
<1>5. SetAt(cur)
  BY <1>2, <1>3, <1>4 DEF ReadLine
<1>6. /\ Sets(cur, Item) /\ argv' = Spent /\ pos' = pos + 1
      /\ UNCHANGED <<prog, jobs, chosen, outcome>> /\ slots' = slots
  BY <1>3, <1>4, <1>5, SetIs
<1>7. argv' = argv
  BY <1>2, <1>6 DEF Spent
<1>8. DOMAIN val' = D \cup {cur} /\ DOMAIN val'[cur] = OptionsOf(cur)
  BY <1>4, <1>6 DEF Sets
<1>9. Settled(D)'
  <2>1. ASSUME NEW loc \in D
        PROVE  /\ DOMAIN val'[loc] = OptionsOf(loc)
               /\ \A name \in OptionsOf(loc) : val'[loc][name] = FileValue(loc, name)
    <3>1. loc \in DOMAIN val /\ loc # cur
      BY <1>4
    <3>2. DOMAIN val[loc] = OptionsOf(loc) /\ \A name \in OptionsOf(loc) : val[loc][name] = FileValue(loc, name)
      BY DEF FileState, Settled
    <3>3. DOMAIN val'[loc] = OptionsOf(loc)
      BY <1>6, <3>1, <3>2 DEF Sets
    <3>4. \A name \in OptionsOf(loc) : val'[loc][name] = val[loc][name]
      BY <1>6, <3>1, <3>2 DEF Sets
    <3> QED BY <3>2, <3>3, <3>4
  <2> QED BY <1>6, <2>1, FileSame DEF Settled
<1>10. ASSUME NEW name \in OptionsOf(cur)
       PROVE  val'[cur][name] = LastRead(items, LinesOf(items, name), pos + 1, FileFrom(cur, name))
  <2>1. val'[cur][name] = IF name = Item.name THEN Parsed(Item.val) ELSE val[cur][name]
    BY <1>4, <1>6 DEF Sets
  <2>2. pos \in LinesOf(items, name) <=> name = Item.name
    BY <1>2 DEF LinesOf
  <2>3. val[cur][name] = LastRead(items, LinesOf(items, name), pos, FileFrom(cur, name))
    BY <1>4 DEF FileState
  <2>4. LastRead(items, LinesOf(items, name), pos + 1, FileFrom(cur, name)) =
          IF pos \in LinesOf(items, name) THEN Parsed(items[pos].val)
          ELSE LastRead(items, LinesOf(items, name), pos, FileFrom(cur, name))
    BY <1>1, <1>4, ReadNext
  <2> QED BY <1>2, <2>1, <2>2, <2>3, <2>4
<1>11. \A name : LinesOf(items, name)' = LinesOf(items, name)
  BY <1>6, FileSame DEF LinesOf
<1>12. FileOf(cur)' = FileOf(cur) /\ OptionsOf(cur)' = OptionsOf(cur) /\ \A name : FileFrom(cur, name)' = FileFrom(cur, name)
  BY <1>6, FileSame
<1>13. FirstChoice' = FirstChoice /\ slots' = slots /\ chosen' = chosen /\ slots = 1 /\ chosen = FirstChoice
  BY <1>6, ServerSame DEF FileState
<1>14. pos + 1 \in 0..Len(items) + 1 /\ pos + 1 # 0
  BY <1>1, <1>2
<1>15. UNCHANGED <<prog, jobs, argv, outcome>>
  BY <1>6, <1>7
<1> QED BY <1>6, <1>8, <1>9, <1>10, <1>11, <1>12, <1>13, <1>14, <1>15 DEF FileState

LEMMA FileClose ==
  ASSUME NEW D, NEW cur, IsFile(D, cur), FileState(D, cur), Close
  PROVE  /\ UNCHANGED <<prog, argv, chosen, slots, outcome>> /\ pos' = 0 /\ slots' = 1 /\ chosen' = FirstChoice'
         /\ DOMAIN val' = D \cup {cur} /\ Settled(D \cup {cur})'
         /\ jobs' = (IF Len(cur) = 1 THEN Voices(cur[1]) ELSE <<>>) \o Tail(jobs)
<1>1. Len(FileOf(cur)) \in Nat /\ \A name : LinesOf(FileOf(cur), name) \subseteq 1..Len(FileOf(cur))
  BY LinesIn DEF IsFile
<1>2. Items = FileOf(cur)
  BY DEF IsFile, Items
<1>3. pos \in Nat /\ pos # 0 /\ pos > Len(FileOf(cur))
  BY <1>1, <1>2 DEF Close, FileState
<1>4. pos' = 0 /\ UNCHANGED <<prog, argv, val, chosen, slots, outcome>>
  BY DEF Close, IsFile
<1>5. jobs' = (IF Len(cur) = 1 THEN Voices(cur[1]) ELSE <<>>) \o Tail(jobs)
  BY DEF Close, IsFile
<1>6. ASSUME NEW name \in OptionsOf(cur) PROVE val[cur][name] = FileValue(cur, name)
  <2>1. val[cur][name] = LastRead(FileOf(cur), LinesOf(FileOf(cur), name), pos, FileFrom(cur, name))
    BY <1>3 DEF FileState
  <2>2. FileValue(cur, name) = LastValue(FileOf(cur), LinesOf(FileOf(cur), name), FileFrom(cur, name))
    BY DEF FileValue, IsFile
  <2> QED BY <1>1, <1>3, <2>1, <2>2, ReadAll
<1>7. Settled(D \cup {cur})
  BY <1>3, <1>6 DEF FileState, Settled
<1>8. Settled(D \cup {cur})'
  BY <1>4, <1>7, FileSame DEF Settled
<1>9. chosen = FirstChoice /\ slots = 1 /\ FirstChoice' = FirstChoice /\ DOMAIN val = D \cup {cur}
  BY <1>3, <1>4, ServerSame DEF FileState
<1> QED BY <1>4, <1>5, <1>8, <1>9

LangAtLoc(a) == <<LangName(a)>>
VoiceLoc(a, b) == <<LangName(a), VoiceNames(a)[b]>>

LEMMA EarlierIs ==
  ASSUME NEW a \in Nat, NEW loc
  PROVE  loc \in Earlier(a) <=>
           \/ loc = <<>>
           \/ \E i \in 1..a - 1 : loc = LangAtLoc(i) \/ \E k \in 1..NV(i) : loc = VoiceLoc(i, k)
BY DEF Earlier, LangAtLoc, VoiceLoc

LEMMA LocsIs ==
  ASSUME NEW a \in Nat, NEW b \in Nat, NEW loc
  PROVE  loc \in Locs(a, b) <=> loc \in Earlier(a) \/ loc = LangAtLoc(a) \/ \E k \in 1..b - 1 : loc = VoiceLoc(a, k)
BY DEF Locs, LangAtLoc, VoiceLoc

LEMMA LocsFirst == ASSUME NEW a \in Nat PROVE Locs(a, 1) = Earlier(a) \cup {LangAtLoc(a)}
<1>1. 1..1 - 1 = {}
  OBVIOUS
<1> QED BY <1>1 DEF Locs, LangAtLoc

LEMMA LocsNext == ASSUME NEW a \in Nat, NEW b \in Nat \ {0} PROVE Locs(a, b + 1) = Locs(a, b) \cup {VoiceLoc(a, b)}
<1>1. \A k : k \in 1..(b + 1) - 1 <=> k \in 1..b - 1 \/ k = b
  OBVIOUS
<1>2. ASSUME NEW loc PROVE loc \in Locs(a, b + 1) <=> loc \in Locs(a, b) \/ loc = VoiceLoc(a, b)
  <2>1. (\E k \in 1..(b + 1) - 1 : loc = VoiceLoc(a, k)) <=> (\E k \in 1..b - 1 : loc = VoiceLoc(a, k)) \/ loc = VoiceLoc(a, b)
    BY <1>1
  <2> QED BY <2>1, LocsIs
<1> QED BY <1>2

LEMMA LocsLast == ASSUME NEW a \in Nat \ {0}, NV(a) \in Nat PROVE Locs(a, NV(a) + 1) = Earlier(a + 1)
<1>1. ASSUME NEW loc PROVE loc \in Locs(a, NV(a) + 1) <=> loc \in Earlier(a + 1)
  <2> DEFINE P(i) == loc = LangAtLoc(i) \/ \E k \in 1..NV(i) : loc = VoiceLoc(i, k)
  <2>1. loc \in Earlier(a + 1) <=> loc = <<>> \/ \E i \in 1..(a + 1) - 1 : P(i)
    BY EarlierIs
  <2>2. loc \in Earlier(a) <=> loc = <<>> \/ \E i \in 1..a - 1 : P(i)
    BY EarlierIs
  <2>3. loc \in Locs(a, NV(a) + 1) <=> loc \in Earlier(a) \/ P(a)
    <3>1. NV(a) + 1 \in Nat /\ (NV(a) + 1) - 1 = NV(a)
      OBVIOUS
    <3> QED BY <3>1, LocsIs
  <2> HIDE DEF P
  <2>4. \A i : i \in 1..(a + 1) - 1 <=> i \in 1..a - 1 \/ i = a
    OBVIOUS
  <2> QED BY <2>1, <2>2, <2>3, <2>4
<1> QED BY <1>1

\* VoiceNames are told apart.
LEMMA LangFresh ==
  ASSUME StartAssumption, Common, NEW a \in 1..NL
  PROVE  LangAtLoc(a) \notin Earlier(a) /\ <<>> \in Earlier(a)
<1>0. NL \in Nat /\ a \in Nat
  BY ProgramIs DEF Common
<1>1. \A i \in 1..a - 1 : LangName(i) # LangName(a)
  <2>1. ASSUME NEW i \in 1..a - 1 PROVE i \in 1..Len(prog.langs) /\ a \in 1..Len(prog.langs) /\ i # a
    BY <1>0 DEF NL
  <2> QED BY <2>1 DEF Common, Ordinary, Different, LangName
<1>2. \A i : LangAtLoc(a) = LangAtLoc(i) => LangName(i) = LangName(a)
  BY DEF LangAtLoc
<1>3. \A i, k : Len(LangAtLoc(a)) = 1 /\ Len(VoiceLoc(i, k)) = 2
  BY DEF LangAtLoc, VoiceLoc
<1>4. LangAtLoc(a) # <<>>
  BY DEF LangAtLoc
<1>5. \A i, k : LangAtLoc(a) # VoiceLoc(i, k)
  BY <1>3
<1> QED BY <1>0, <1>1, <1>2, <1>4, <1>5, EarlierIs

LEMMA VoiceFresh ==
  ASSUME StartAssumption, Common, NEW a \in 1..NL, NEW b \in 1..NV(a)
  PROVE  VoiceLoc(a, b) \notin Locs(a, b) /\ LangAtLoc(a) \in Locs(a, b)
<1>0. NL \in Nat /\ a \in Nat /\ NV(a) \in Nat /\ b \in Nat
  BY ProgramIs DEF Common
<1>1. \A i \in 1..a - 1 : LangName(i) # LangName(a)
  <2>1. ASSUME NEW i \in 1..a - 1 PROVE i \in 1..Len(prog.langs) /\ a \in 1..Len(prog.langs) /\ i # a
    BY <1>0 DEF NL
  <2> QED BY <2>1 DEF Common, Ordinary, Different, LangName
<1>2. \A k \in 1..b - 1 : VoiceNames(a)[k] # VoiceNames(a)[b]
  <2>1. ASSUME NEW k \in 1..b - 1 PROVE k \in 1..Len(VoiceNames(a)) /\ b \in 1..Len(VoiceNames(a)) /\ k # b
    BY <1>0 DEF NV
  <2>2. Different(VoiceNames(a))
    BY ProgramIs DEF Common, Ordinary, VoiceNames, LangName
  <2> QED BY <2>1, <2>2 DEF Different
<1>3. \A i, k : VoiceLoc(a, b) = VoiceLoc(i, k) => LangName(i) = LangName(a) /\ VoiceNames(i)[k] = VoiceNames(a)[b]
  BY DEF VoiceLoc
<1>4. VoiceLoc(a, b) # <<>> /\ \A i : VoiceLoc(a, b) # LangAtLoc(i)
  <2>1. Len(VoiceLoc(a, b)) = 2 /\ Len(<<>>) = 0 /\ \A i : Len(LangAtLoc(i)) = 1
    BY DEF VoiceLoc, LangAtLoc
  <2> QED BY <2>1
<1>5. \A i \in 1..a - 1 : \A k : VoiceLoc(a, b) # VoiceLoc(i, k)
  BY <1>1, <1>3
<1>6. \A k \in 1..b - 1 : VoiceLoc(a, b) # VoiceLoc(a, k)
  BY <1>2, <1>3
<1>7. VoiceLoc(a, b) \notin Earlier(a)
  BY <1>0, <1>4, <1>5, EarlierIs
<1>8. VoiceLoc(a, b) \notin Locs(a, b) /\ LangAtLoc(a) \in Locs(a, b)
  BY <1>0, <1>4, <1>6, <1>7, LocsIs
<1> QED BY <1>8

LEMMA LocsSame ==
  ASSUME prog' = prog
  PROVE  /\ \A a : Earlier(a)' = Earlier(a) /\ LangAtLoc(a)' = LangAtLoc(a) /\ NV(a)' = NV(a)
         /\ \A a, b : Locs(a, b)' = Locs(a, b) /\ VoiceLoc(a, b)' = VoiceLoc(a, b) /\ VoiceJob(a, b)' = VoiceJob(a, b)
<1>1. \A a : LangName(a)' = LangName(a) /\ VoiceNames(a)' = VoiceNames(a) /\ NV(a)' = NV(a)
  BY DEF LangName, VoiceNames, NV
<1>2. \A a : Earlier(a)' = Earlier(a) /\ LangAtLoc(a)' = LangAtLoc(a)
  BY <1>1 DEF Earlier, LangAtLoc
<1>3. \A a, b : Locs(a, b)' = Locs(a, b) /\ VoiceLoc(a, b)' = VoiceLoc(a, b) /\ VoiceJob(a, b)' = VoiceJob(a, b)
  BY <1>1, <1>2 DEF Locs, VoiceLoc, VoiceJob, Voice
<1> QED BY <1>1, <1>2, <1>3

LEMMA LangJob ==
  ASSUME StartAssumption, Common, NEW a \in 1..NL, IsRest(jobs, a + 5)
  PROVE  IsFile(Earlier(a), LangAtLoc(a))
<1>0. NL \in Nat /\ a \in Nat /\ a + 5 \in 1..NL + 6
  BY ProgramIs DEF Common
<1>1. jobs # <<>> /\ Job = JobAt(a + 5) /\ Len(jobs) = NL + 7 - (a + 5)
  BY <1>0, RestTail DEF Job
<1>2. Len(jobs) # 1
  BY <1>0, <1>1
<1>3. Job = File("L", LangAtLoc(a), prog.file[LangName(a)])
  <2>1. a + 5 \notin {1, 3, 5} /\ a + 5 # 2 /\ a + 5 # 4 /\ a + 5 <= NL + 5 /\ (a + 5) - 5 = a
    BY <1>0
  <2>2. JobAt(a + 5) = Language(prog, LangName(a))
    BY <2>1 DEF JobAt
  <2> QED BY <1>1, <2>2 DEF Language, LangAtLoc
<1>4. Job.at = LangAtLoc(a) /\ Job.scope = "L" /\ Job.items = prog.file[LangName(a)]
  BY <1>3 DEF File
<1>5. Len(LangAtLoc(a)) = 1 /\ LangAtLoc(a)[1] = LangName(a) /\ FileOf(LangAtLoc(a)) = prog.file[LangName(a)]
      /\ OptionsOf(LangAtLoc(a)) = NamesOf("L")
  BY DEF LangAtLoc, FileOf, OptionsOf
<1>6. IsItems(prog.file[LangName(a)]) /\ Has(prog.file[LangName(a)], NamesOf("L"))
  BY ProgramIs DEF Common, Ordinary
<1>7. LangAtLoc(a) \notin Earlier(a) /\ <<>> \in Earlier(a)
  BY LangFresh
<1>8. IsItems(FileOf(LangAtLoc(a))) /\ Has(FileOf(LangAtLoc(a)), OptionsOf(LangAtLoc(a)))
  BY <1>5, <1>6
<1> QED BY <1>1, <1>2, <1>4, <1>5, <1>7, <1>8 DEF IsFile

LEMMA VoiceJobIs ==
  ASSUME StartAssumption, Common, NEW a \in 1..NL, NEW b \in 1..NV(a), IsVoices(jobs, a, b)
  PROVE  IsFile(Locs(a, b), VoiceLoc(a, b))
<1> DEFINE v == VoiceNames(a)[b]
<1>0. NL \in Nat /\ NV(a) \in Nat
  BY ProgramIs DEF Common
<1>1. jobs # <<>> /\ Job = VoiceJob(a, b) /\ Len(jobs) > 1 /\ Len(jobs) \in Nat
  BY <1>0, VoicesTail DEF Job, IsVoices
<1>2. Len(jobs) # 1
  <2>1. \A n \in Nat : n > 1 => n # 1
    OBVIOUS
  <2> QED BY <1>1, <2>1
<1>3. Job = File("V", VoiceLoc(a, b), prog.file[v])
  BY <1>1 DEF VoiceJob, Voice, VoiceLoc
<1>4. Job.at = VoiceLoc(a, b) /\ Job.scope = "V" /\ Job.items = prog.file[v]
  BY <1>3 DEF File
<1>5. /\ Len(VoiceLoc(a, b)) = 2 /\ VoiceLoc(a, b)[1] = LangName(a) /\ FileOf(VoiceLoc(a, b)) = prog.file[v]
      /\ OptionsOf(VoiceLoc(a, b)) = NamesOf("V") \cup SoftNames(prog, LangName(a))
  BY DEF VoiceLoc, FileOf, OptionsOf
<1>6. /\ LangName(a) \in Range(prog.langs) /\ v \in Range(prog.voices[LangName(a)]) /\ IsItems(prog.file[v])
  BY ProgramIs DEF Common, VoiceNames, LangName
<1>7. Has(prog.file[v], NamesOf("V") \cup SoftNames(prog, LangName(a)))
  BY <1>6 DEF Common, Ordinary
<1>8. <<VoiceLoc(a, b)[1]>> = LangAtLoc(a)
  BY <1>5 DEF LangAtLoc
<1> QED BY <1>1, <1>2, <1>4, <1>5, <1>6, <1>7, <1>8, VoiceFresh DEF IsFile

LangInv(a) == IsRest(jobs, a + 5) /\ FileState(Earlier(a), LangAtLoc(a))
VoiceInv(a, b) == IsVoices(jobs, a, b) /\ FileState(Locs(a, b), VoiceLoc(a, b))

\* All before the a-th language is loaded.
Reached(a) ==
  /\ IsRest(jobs, a + 5) /\ pos = 0 /\ slots = 1 /\ chosen = FirstChoice
  /\ DOMAIN val = Earlier(a) /\ Settled(Earlier(a))

LEMMA ReachedLang ==
  ASSUME StartAssumption, Common, NEW a \in 1..NL, Reached(a)
  PROVE  LangInv(a)
<1>1. Len(FileOf(LangAtLoc(a))) \in Nat
  BY LangJob, ItemsAre DEF Reached, IsFile
<1>2. 0 \in 0..Len(FileOf(LangAtLoc(a))) + 1
  BY <1>1
<1> QED BY <1>2 DEF Reached, LangInv, FileState

LEMMA ReachedFirst ==
  ASSUME StartAssumption, Common, prog' = prog, IsRest(jobs, 6)', pos' = 0, slots' = 1, chosen' = FirstChoice, Ready'
  PROVE  Reached(1)'
<1>1. Earlier(1)' = {<<>>}
  <2>1. 1..1 - 1 = {}
    OBVIOUS
  <2> QED BY <2>1 DEF Earlier
<1>2. OptionsOf(<<>>)' = NamesOf("C") /\ \A name : FileValue(<<>>, name)' = OfServer(name)'
  BY DEF OptionsOf, FileValue
<1>3. Settled(Earlier(1))'
  BY <1>1, <1>2 DEF Settled, Ready
<1>4. 1 + 5 = 6 /\ FirstChoice' = FirstChoice
  BY ServerSame
<1> QED BY <1>1, <1>3, <1>4 DEF Reached, Ready

LEMMA LangOpen ==
  ASSUME StartAssumption, Common, NEW a \in 1..NL, LangInv(a), Open
  PROVE  LangInv(a)' /\ UNCHANGED <<prog, argv, outcome>>
<1>1. PICK D, cur : D = Earlier(a) /\ cur = LangAtLoc(a)
  OBVIOUS
<1>2. FileState(D, cur)' /\ UNCHANGED <<prog, jobs, argv, outcome>>
  BY <1>1, LangJob, FileOpen DEF LangInv
<1>3. FileState(Earlier(a), LangAtLoc(a))'
  <2>1. Earlier(a)' = D /\ LangAtLoc(a)' = cur
    BY <1>1, <1>2, LocsSame
  <2> QED BY <1>2, <2>1 DEF FileState, Settled
<1>4. IsRest(jobs, a + 5)'
  BY <1>2, ServerSame DEF LangInv, IsRest
<1> QED BY <1>2, <1>3, <1>4 DEF LangInv

LEMMA LangLine ==
  ASSUME StartAssumption, Common, NEW a \in 1..NL, LangInv(a), ReadLine
  PROVE  LangInv(a)' /\ UNCHANGED <<prog, argv, outcome>>
<1>1. PICK D, cur : D = Earlier(a) /\ cur = LangAtLoc(a)
  OBVIOUS
<1>2. FileState(D, cur)' /\ UNCHANGED <<prog, jobs, argv, outcome>>
  BY <1>1, LangJob, FileLine DEF LangInv
<1>3. FileState(Earlier(a), LangAtLoc(a))'
  <2>1. Earlier(a)' = D /\ LangAtLoc(a)' = cur
    BY <1>1, <1>2, LocsSame
  <2> QED BY <1>2, <2>1 DEF FileState, Settled
<1>4. IsRest(jobs, a + 5)'
  BY <1>2, ServerSame DEF LangInv, IsRest
<1> QED BY <1>2, <1>3, <1>4 DEF LangInv

LEMMA VoiceOpen ==
  ASSUME StartAssumption, Common, NEW a \in 1..NL, NEW b \in 1..NV(a), VoiceInv(a, b), Open
  PROVE  VoiceInv(a, b)' /\ UNCHANGED <<prog, argv, outcome>>
<1>1. PICK D, cur : D = Locs(a, b) /\ cur = VoiceLoc(a, b)
  OBVIOUS
<1>2. FileState(D, cur)' /\ UNCHANGED <<prog, jobs, argv, outcome>>
  BY <1>1, VoiceJobIs, FileOpen DEF VoiceInv
<1>3. FileState(Locs(a, b), VoiceLoc(a, b))'
  <2>1. Locs(a, b)' = D /\ VoiceLoc(a, b)' = cur
    BY <1>1, <1>2, LocsSame
  <2> QED BY <1>2, <2>1 DEF FileState, Settled
<1>4. IsVoices(jobs, a, b)'
  BY <1>2, ServerSame, LocsSame DEF VoiceInv, IsVoices
<1> QED BY <1>2, <1>3, <1>4 DEF VoiceInv

LEMMA VoiceLine ==
  ASSUME StartAssumption, Common, NEW a \in 1..NL, NEW b \in 1..NV(a), VoiceInv(a, b), ReadLine
  PROVE  VoiceInv(a, b)' /\ UNCHANGED <<prog, argv, outcome>>
<1>1. PICK D, cur : D = Locs(a, b) /\ cur = VoiceLoc(a, b)
  OBVIOUS
<1>2. FileState(D, cur)' /\ UNCHANGED <<prog, jobs, argv, outcome>>
  BY <1>1, VoiceJobIs, FileLine DEF VoiceInv
<1>3. FileState(Locs(a, b), VoiceLoc(a, b))'
  <2>1. Locs(a, b)' = D /\ VoiceLoc(a, b)' = cur
    BY <1>1, <1>2, LocsSame
  <2> QED BY <1>2, <2>1 DEF FileState, Settled
<1>4. IsVoices(jobs, a, b)'
  BY <1>2, ServerSame, LocsSame DEF VoiceInv, IsVoices
<1> QED BY <1>2, <1>3, <1>4 DEF VoiceInv

LEMMA VoicesGo ==
  ASSUME StartAssumption, Common, prog' = prog, NEW a \in 1..NL, NEW b \in 1..NV(a) + 1,
         IsVoices(jobs', a, b), pos' = 0, slots' = 1, chosen' = FirstChoice',
         NEW D, D = Locs(a, b), DOMAIN val' = D, Settled(D)'
  PROVE  IF b <= NV(a) THEN VoiceInv(a, b)' ELSE Reached(a + 1)'
<1>0. NL \in Nat /\ a \in Nat \ {0} /\ NV(a) \in Nat /\ b \in Nat
  BY ProgramIs DEF Common
<1>1. CASE b <= NV(a)
  <2>1. b \in 1..NV(a)
    BY <1>0, <1>1
  <2>2. IsVoices(jobs, a, b)'
    BY ServerSame, LocsSame DEF IsVoices
  <2>3. Len(FileOf(VoiceLoc(a, b))) \in Nat
    <3>1. FileOf(VoiceLoc(a, b)) = prog.file[VoiceNames(a)[b]]
      <4>1. Len(VoiceLoc(a, b)) = 2 /\ VoiceLoc(a, b)[2] = VoiceNames(a)[b]
        BY DEF VoiceLoc
      <4> QED BY <4>1 DEF FileOf
    <3> QED BY <2>1, <3>1, ProgramIs, ItemsAre DEF Common
  <2>4. Locs(a, b)' = D /\ VoiceLoc(a, b)' = VoiceLoc(a, b) /\ FileOf(VoiceLoc(a, b))' = FileOf(VoiceLoc(a, b))
    <3>1. VoiceLoc(a, b)' = VoiceLoc(a, b)
      BY LocsSame
    <3> QED BY <3>1, LocsSame DEF FileOf
  <2>5. 0 \in 0..Len(FileOf(VoiceLoc(a, b))) + 1
    BY <2>3
  <2>6. FileState(Locs(a, b), VoiceLoc(a, b))'
    BY <2>4, <2>5 DEF FileState, Settled
  <2> QED BY <1>1, <2>2, <2>6 DEF VoiceInv
<1>2. CASE ~(b <= NV(a))
  <2>1. b = NV(a) + 1
    BY <1>0, <1>2
  <2>2. D = Earlier(a + 1)
    BY <1>0, <2>1, LocsLast
  <2>3. IsRest(jobs', a + 6) /\ (a + 1) + 5 = a + 6
    BY <1>0, <2>1, VoicesOver
  <2>4. IsRest(jobs, (a + 1) + 5)'
    BY <2>3, ServerSame DEF IsRest
  <2>5. Earlier(a + 1)' = D
    BY <2>2, LocsSame
  <2> QED BY <1>2, <2>4, <2>5 DEF Reached, Settled
<1> QED BY <1>1, <1>2

LEMMA LangClose ==
  ASSUME StartAssumption, Common, NEW a \in 1..NL, LangInv(a), Close
  PROVE  /\ UNCHANGED <<prog, argv, outcome>>
         /\ \/ Reached(a + 1)'
            \/ 1 \in 1..NV(a) /\ VoiceInv(a, 1)'
<1>0. NL \in Nat /\ a \in Nat /\ NV(a) \in Nat
  BY ProgramIs DEF Common
<1>1. PICK D, cur : D = Earlier(a) /\ cur = LangAtLoc(a)
  OBVIOUS
<1>2. Len(cur) = 1 /\ cur[1] = LangName(a)
  BY <1>1 DEF LangAtLoc
<1>3. /\ UNCHANGED <<prog, argv, chosen, slots, outcome>> /\ pos' = 0 /\ slots' = 1 /\ chosen' = FirstChoice'
      /\ DOMAIN val' = D \cup {cur} /\ Settled(D \cup {cur})'
      /\ jobs' = (IF Len(cur) = 1 THEN Voices(cur[1]) ELSE <<>>) \o Tail(jobs)
  BY <1>1, LangJob, FileClose DEF LangInv
<1>4. IsVoices(jobs', a, 1)
  <2>1. jobs' = Voices(LangName(a)) \o Tail(jobs)
    BY <1>2, <1>3
  <2> QED BY <2>1, VoicesNext DEF LangInv, Common
<1>5. D \cup {cur} = Locs(a, 1) /\ 1 \in 1..NV(a) + 1
  BY <1>0, <1>1, LocsFirst
<1>6. PICK E : E = D \cup {cur}
  OBVIOUS
<1>7. IF 1 <= NV(a) THEN VoiceInv(a, 1)' ELSE Reached(a + 1)'
  BY <1>3, <1>4, <1>5, <1>6, VoicesGo
<1> QED BY <1>0, <1>3, <1>7

LEMMA VoiceClose ==
  ASSUME StartAssumption, Common, NEW a \in 1..NL, NEW b \in 1..NV(a), VoiceInv(a, b), Close
  PROVE  /\ UNCHANGED <<prog, argv, outcome>>
         /\ \/ Reached(a + 1)'
            \/ b + 1 \in 1..NV(a) /\ VoiceInv(a, b + 1)'
<1>0. NL \in Nat /\ a \in Nat /\ NV(a) \in Nat /\ b \in Nat \ {0}
  BY ProgramIs DEF Common
<1>1. PICK D, cur : D = Locs(a, b) /\ cur = VoiceLoc(a, b)
  OBVIOUS
<1>2. Len(cur) = 2
  BY <1>1 DEF VoiceLoc
<1>3. /\ UNCHANGED <<prog, argv, chosen, slots, outcome>> /\ pos' = 0 /\ slots' = 1 /\ chosen' = FirstChoice'
      /\ DOMAIN val' = D \cup {cur} /\ Settled(D \cup {cur})'
      /\ jobs' = (IF Len(cur) = 1 THEN Voices(cur[1]) ELSE <<>>) \o Tail(jobs)
  BY <1>1, VoiceJobIs, FileClose DEF VoiceInv
<1>4. IsVoices(jobs', a, b + 1)
  <2>1. IsVoices(Tail(jobs), a, b + 1)
    BY <1>0, VoicesTail DEF VoiceInv
  <2>2. Tail(jobs) \in Seq(JobSet)
    BY <2>1 DEF IsVoices
  <2>3. jobs' = Tail(jobs)
    BY <1>2, <1>3, <2>2, ConcatEmptySeq
  <2> QED BY <2>1, <2>3
<1>5. D \cup {cur} = Locs(a, b + 1) /\ b + 1 \in 1..NV(a) + 1
  BY <1>0, <1>1, LocsNext
<1>6. PICK E : E = D \cup {cur}
  OBVIOUS
<1>7. IF b + 1 <= NV(a) THEN VoiceInv(a, b + 1)' ELSE Reached(a + 1)'
  BY <1>3, <1>4, <1>5, <1>6, VoicesGo
<1> QED BY <1>0, <1>3, <1>7

-----------------------------------------------------------------------------
(* The last pass of the command line.                                      *)

\* The voice of a language at an argument.
VoiceThen(l, i) ==
  LET is == {k \in 1..(i - 1) : prog.cmd[k].name = "voice" /\ LangAt(k) = l} IN
  IF is = {} THEN prog.voices[l][1] ELSE prog.cmd[Max(is)].val.is

CurrentAt(c, i) ==
  /\ c \in [lang : 1..NL, voice : [DOMAIN prog.voices -> Nat]]
  /\ LangName(c.lang) = LangAt(i) /\ NV(c.lang) > 0
  /\ \A a \in 1..NL :
       NV(a) > 0 => /\ c.voice[LangName(a)] \in 1..NV(a)
                    /\ VoiceNames(a)[c.voice[LangName(a)]] = VoiceThen(LangName(a), i)
Current == CurrentAt(chosen, pos)

EndValues ==
  /\ DOMAIN val = Earlier(NL + 1)
  /\ \A loc \in Earlier(NL + 1) :
       /\ DOMAIN val[loc] = OptionsOf(loc)
       /\ \A name \in OptionsOf(loc) : val[loc][name] = LastRead(prog.cmd, Asked(loc, name), pos, FileValue(loc, name))

EndInv ==
  /\ IsRest(jobs, NL + 6) /\ pos \in 0..Len(prog.cmd) + 1 /\ slots = 1 /\ EndValues
  /\ IF pos = 0 THEN chosen = FirstChoice ELSE Current

LEMMA AskedIn == ASSUME NEW loc, NEW name PROVE Asked(loc, name) \subseteq 1..Len(prog.cmd)
BY DEF Asked

LEMMA CmdBegins ==
  ASSUME StartAssumption, prog \in Programs, NEW loc, NEW name, NEW else
  PROVE  /\ LastRead(prog.cmd, Asked(loc, name), 0, else) = else
         /\ LastRead(prog.cmd, Asked(loc, name), 1, else) = else
<1>1. Len(prog.cmd) \in Nat /\ Asked(loc, name) \subseteq 1..Len(prog.cmd)
  BY ProgramIs, ItemsAre, AskedIn
<1> QED BY <1>1, ReadNone

LEMMA LastOfNext ==
  ASSUME NEW i \in Nat \ {0}, NEW S, S \subseteq 1..i, i \in S
  PROVE  S # {} /\ Max(S) = i
<1>1. S \subseteq Nat /\ \A k \in S : k <= i
  OBVIOUS
<1> QED BY <1>1, MaxIs

LEMMA LangNext ==
  ASSUME NEW i \in Nat \ {0}
  PROVE  LangAt(i + 1) = IF prog.cmd[i].name = "language" THEN prog.cmd[i].val.is ELSE LangAt(i)
<1> DEFINE S(n) == {k \in 1..(n - 1) : prog.cmd[k].name = "language"}
<1>1. \A k : k \in 1..((i + 1) - 1) <=> k \in 1..(i - 1) \/ k = i
  OBVIOUS
<1>2. CASE prog.cmd[i].name = "language"
  <2>1. S(i + 1) \subseteq 1..i /\ i \in S(i + 1)
    BY <1>1, <1>2
  <2>2. S(i + 1) # {} /\ Max(S(i + 1)) = i
    BY <2>1, LastOfNext
  <2> QED BY <1>2, <2>2 DEF LangAt
<1>3. CASE prog.cmd[i].name # "language"
  <2>1. S(i + 1) = S(i)
    BY <1>1, <1>3
  <2> QED BY <1>3, <2>1 DEF LangAt
<1> QED BY <1>2, <1>3

LEMMA VoiceNext ==
  ASSUME NEW i \in Nat \ {0}, NEW l
  PROVE  VoiceThen(l, i + 1) =
           IF prog.cmd[i].name = "voice" /\ LangAt(i) = l THEN prog.cmd[i].val.is ELSE VoiceThen(l, i)
<1> DEFINE S(n) == {k \in 1..(n - 1) : prog.cmd[k].name = "voice" /\ LangAt(k) = l}
<1>1. \A k : k \in 1..((i + 1) - 1) <=> k \in 1..(i - 1) \/ k = i
  OBVIOUS
<1>2. CASE prog.cmd[i].name = "voice" /\ LangAt(i) = l
  <2>1. S(i + 1) \subseteq 1..i /\ i \in S(i + 1)
    BY <1>1, <1>2
  <2>2. S(i + 1) # {} /\ Max(S(i + 1)) = i
    BY <2>1, LastOfNext
  <2> QED BY <1>2, <2>2 DEF VoiceThen
<1>3. CASE ~(prog.cmd[i].name = "voice" /\ LangAt(i) = l)
  <2>1. S(i + 1) = S(i)
    BY <1>1, <1>3
  <2> QED BY <1>3, <2>1 DEF VoiceThen
<1> QED BY <1>2, <1>3

LEMMA AtFirst ==
  LangAt(1) = prog.langs[1] /\ \A l : VoiceThen(l, 1) = prog.voices[l][1]
<1>1. 1..(1 - 1) = {}
  OBVIOUS
<1> QED BY <1>1 DEF LangAt, VoiceThen

LEMMA VoiceAtIs == ASSUME NEW i PROVE VoiceAt(i) = VoiceThen(LangAt(i), i)
BY DEF VoiceAt, VoiceThen

\* A place is the server, a language or a voice.
LEMMA Shapes ==
  ASSUME StartAssumption, Common, NEW loc \in Earlier(NL + 1)
  PROVE  \/ loc = <<>> /\ Len(loc) = 0 /\ Kind(loc) = "C" /\ OptionsOf(loc) = NamesOf("C")
         \/ /\ loc = <<loc[1]>> /\ Len(loc) = 1 /\ Kind(loc) = "L" /\ OptionsOf(loc) = NamesOf("L")
         \/ /\ loc = <<loc[1], loc[2]>> /\ Len(loc) = 2 /\ Kind(loc) = "V"
            /\ OptionsOf(loc) = NamesOf("V") \cup SoftNames(prog, loc[1])
<1>1. NL + 1 \in Nat
  BY ProgramIs DEF Common
<1>2. loc = <<>> \/ (\E x : loc = <<x>>) \/ (\E x, y : loc = <<x, y>>)
  BY <1>1, EarlierIs DEF LangAtLoc, VoiceLoc
<1>3. CASE loc = <<>>
  BY <1>3 DEF Kind, OptionsOf
<1>4. CASE \E x : loc = <<x>>
  <2>1. loc = <<loc[1]>> /\ Len(loc) = 1
    BY <1>4
  <2> QED BY <2>1 DEF Kind, OptionsOf
<1>5. CASE \E x, y : loc = <<x, y>>
  <2>1. loc = <<loc[1], loc[2]>> /\ Len(loc) = 2
    BY <1>5
  <2> QED BY <2>1 DEF Kind, OptionsOf
<1> QED BY <1>2, <1>3, <1>4, <1>5

LEMMA WantedIs ==
  ASSUME StartAssumption, Common, NEW loc \in Earlier(NL + 1), NEW name
  PROVE  Wanted(loc, name) = LastValue(prog.cmd, Asked(loc, name), FileValue(loc, name))
<1>0. ServerValue(name, 4) = OfServer(name) /\ \A l : LanguageValue(l, name) = OfLanguage(l, name)
  <2>1. ServerValue(name, 4) = OfServer(name) /\ ServerValue(name, 3) = OfServer(name)
    <3>1. 3 \in Nat \ {0} /\ 4 \in Nat \ {0}
      OBVIOUS
    <3> QED BY <3>1, ArgumentIs DEF ServerValue, OfServer, Common
  <2> QED BY <2>1 DEF LanguageValue, OfLanguage
<1>00. \A else : Argument(loc, name, 1, else) = LastValue(prog.cmd, Asked(loc, name), else)
  <2>1. 1 \in Nat \ {0}
    OBVIOUS
  <2> QED BY <2>1, ArgumentIs DEF Common
<1>1. CASE loc = <<>>
  <2>1. ServerValue(name, 4) = OfServer(name)
    BY <1>0
  <2>2. Len(<<>>) = 0
    OBVIOUS
  <2>3. Wanted(<<>>, name) = OfServer(name) /\ FileValue(<<>>, name) = OfServer(name)
    BY <2>1, <2>2 DEF Wanted, FileValue
  <2>4. LastValue(prog.cmd, Asked(<<>>, name), OfServer(name)) = OfServer(name)
    BY Again DEF OfServer
  <2> QED BY <1>1, <2>3, <2>4
<1>2. CASE Len(loc) = 1
  <2>1. Wanted(loc, name) = LastValue(prog.cmd, Asked(loc, name), OfLanguage(loc[1], name))
    BY <1>0, <1>00, <1>2 DEF Wanted
  <2>2. FileValue(loc, name) = OfLanguage(loc[1], name)
    BY <1>2, LineIs DEF FileValue, FileOf, FileFrom, OfLanguage
  <2> QED BY <2>1, <2>2
<1>3. CASE Len(loc) = 2
  <2> DEFINE V == LineOf(prog.file[loc[2]], name, IF name = "s" THEN Initial ELSE OfLanguage(loc[1], name))
  <2>1. Wanted(loc, name) = LastValue(prog.cmd, Asked(loc, name), V)
    BY <1>0, <1>00, <1>3 DEF Wanted
  <2>2. FileValue(loc, name) = V
    BY <1>3, LineIs DEF FileValue, FileOf, FileFrom
  <2> QED BY <2>1, <2>2
<1> QED BY <1>1, <1>2, <1>3, Shapes

LEMMA ReachedEnd ==
  ASSUME StartAssumption, Common, Reached(NL + 1)
  PROVE  EndInv
<1>1. NL \in Nat /\ (NL + 1) + 5 = NL + 6 /\ Len(prog.cmd) \in Nat
  BY ProgramIs, ItemsAre DEF Common
<1>2. \A loc, name : LastRead(prog.cmd, Asked(loc, name), 0, FileValue(loc, name)) = FileValue(loc, name)
  BY CmdBegins DEF Common
<1>3. EndValues
  BY <1>2 DEF EndValues, Reached, Settled
<1>4. 0 \in 0..Len(prog.cmd) + 1
  BY <1>1
<1> QED BY <1>1, <1>3, <1>4 DEF EndInv, Reached

LEMMA EndJob ==
  ASSUME StartAssumption, Common, EndInv
  PROVE  /\ NL \in Nat /\ Job = Cmd /\ Job.scope = "" /\ Len(jobs) = 1 /\ jobs # <<>> /\ Items = argv
         /\ Len(argv) = Len(prog.cmd) /\ Len(prog.cmd) \in Nat
<1>1. NL \in Nat /\ NL + 6 \in 1..NL + 6 /\ Len(prog.cmd) \in Nat
  BY ProgramIs, ItemsAre DEF Common
<1>2. jobs # <<>> /\ Job = JobAt(NL + 6) /\ Len(jobs) = NL + 7 - (NL + 6)
  BY <1>1, RestTail DEF EndInv, Job
<1>3. Len(jobs) = 1
  BY <1>1, <1>2
<1>4. NL + 6 # 2 /\ NL + 6 # 4 /\ ~(NL + 6 <= NL + 5)
  BY <1>1
<1>5. Job = Cmd
  BY <1>2, <1>4 DEF JobAt
<1>6. Job.scope = ""
  BY <1>5 DEF Cmd
<1> QED BY <1>1, <1>2, <1>3, <1>5, <1>6 DEF Items, Common, ArgvOK

LEMMA EndSame ==
  ASSUME prog' = prog
  PROVE  \A l, i : LangAt(i)' = LangAt(i) /\ VoiceThen(l, i)' = VoiceThen(l, i)
BY DEF LangAt, VoiceThen

LEMMA NoLangs == ASSUME StartAssumption, Common PROVE NL \in Nat /\ (prog.langs = <<>> <=> NL = 0)
<1>1. prog.langs \in Seq(Range(prog.langs))
  BY DEF Common, StartAssumption, IsSequence
<1> QED BY <1>1, EmptySeq, LenProperties DEF NL

LEMMA NoVoices ==
  ASSUME StartAssumption, Common, NEW a \in 1..NL
  PROVE  NV(a) \in Nat /\ (VoiceNames(a) = <<>> <=> NV(a) = 0)
<1>1. LangName(a) \in Range(prog.langs)
  BY ProgramIs DEF Common
<1>2. VoiceNames(a) \in Seq(Range(VoiceNames(a)))
  BY <1>1 DEF Common, StartAssumption, IsSequence, VoiceNames, LangName
<1> QED BY <1>2, EmptySeq, LenProperties DEF NV

LEMMA EndOpen ==
  ASSUME StartAssumption, Common, EndInv, outcome = "loading", Open
  PROVE  /\ UNCHANGED <<prog, argv>>
         /\ (outcome' = "crashed" /\ ~Sensible) \/ (outcome' = outcome /\ EndInv')
<1>1. NL \in Nat /\ Job.scope = "" /\ Len(jobs) = 1 /\ Len(prog.cmd) \in Nat
  BY EndJob
<1>2. pos = 0 /\ chosen = FirstChoice /\ UNCHANGED <<prog, jobs, argv, chosen, slots>>
  BY DEF Open, EndInv
<1>3. chosen.lang = 1 /\ ThisLang = prog.langs[1] /\ chosen.voice = [l \in DOMAIN prog.voices |-> 1]
  BY <1>2 DEF FirstChoice, ThisLang
<1>4. CASE NoVoice
  <2>1. outcome' = "crashed"
    BY <1>4 DEF Open
  <2>2. ASSUME Sensible PROVE FALSE
    <3>1. prog.langs # <<>> /\ \A i \in 1..Len(prog.langs) : prog.voices[prog.langs[i]] # <<>>
      BY <2>2 DEF Sensible
    <3>2. 1 \in 1..Len(prog.langs)
      <4>1. NL \in Nat /\ NL # 0
        BY <3>1, NoLangs
      <4> QED BY <4>1 DEF NL
    <3> QED BY <1>3, <1>4, <3>1, <3>2 DEF NoVoice
  <2> QED BY <1>2, <2>1, <2>2
<1>5. CASE ~NoVoice
  <2>1. pos' = 1 /\ val' = val /\ outcome' = outcome
    BY <1>1, <1>5 DEF Open
  <2>2. prog.langs # <<>> /\ prog.voices[prog.langs[1]] # <<>>
    BY <1>1, <1>3, <1>5 DEF NoVoice
  <2>3. 1 \in 1..NL
    <3>1. NL \in Nat /\ NL # 0
      BY <2>2, NoLangs
    <3> QED BY <3>1
  <2>4. NV(1) > 0
    BY <2>2, <2>3, NoVoices DEF VoiceNames
  <2>5. ASSUME NEW a \in 1..NL, NV(a) > 0
        PROVE  /\ chosen.voice[LangName(a)] \in 1..NV(a)
               /\ VoiceNames(a)[chosen.voice[LangName(a)]] = VoiceThen(LangName(a), 1)
    <3>1. LangName(a) \in DOMAIN prog.voices /\ NV(a) \in Nat
      BY ProgramIs DEF Common
    <3>2. chosen.voice[LangName(a)] = 1
      BY <1>3, <3>1
    <3>3. VoiceThen(LangName(a), 1) = VoiceNames(a)[1]
      BY AtFirst DEF VoiceNames, LangName
    <3> QED BY <2>5, <3>1, <3>2, <3>3
  <2>6. chosen \in [lang : 1..NL, voice : [DOMAIN prog.voices -> Nat]]
    BY <1>2, <2>3 DEF FirstChoice
  <2>7. LangName(chosen.lang) = LangAt(1) /\ NV(chosen.lang) > 0
    BY <1>3, <2>4, AtFirst DEF LangName
  <2>8. Current'
    <3>1. \A a : LangName(a)' = LangName(a) /\ VoiceNames(a)' = VoiceNames(a) /\ NV(a)' = NV(a)
      BY <1>2 DEF LangName, VoiceNames, NV
    <3>2. NL' = NL /\ \A l, i : LangAt(i)' = LangAt(i) /\ VoiceThen(l, i)' = VoiceThen(l, i)
      BY <1>2, EndSame DEF NL
    <3> QED BY <1>2, <2>1, <2>5, <2>6, <2>7, <3>1, <3>2 DEF Current, CurrentAt
  <2>9. EndValues'
    <3>1. \A loc, name : LastRead(prog.cmd, Asked(loc, name), 1, FileValue(loc, name)) =
                          LastRead(prog.cmd, Asked(loc, name), 0, FileValue(loc, name))
      BY CmdBegins DEF Common
    <3>2. /\ Earlier(NL + 1)' = Earlier(NL + 1)
          /\ \A loc : OptionsOf(loc)' = OptionsOf(loc)
          /\ \A loc, name : FileValue(loc, name)' = FileValue(loc, name) /\ Asked(loc, name)' = Asked(loc, name)
      BY <1>2, ServerSame, LocsSame, FileSame
    <3> QED BY <1>2, <2>1, <3>1, <3>2 DEF EndInv, EndValues
  <2>10. IsRest(jobs, NL + 6)'
    BY <1>2, ServerSame DEF EndInv, IsRest
  <2>11. 1 \in 0..Len(prog.cmd) + 1
    <3>1. \A n \in Nat : 1 \in 0..n + 1
      OBVIOUS
    <3> QED BY <1>1, <3>1
  <2> QED BY <1>2, <2>1, <2>8, <2>9, <2>10, <2>11 DEF EndInv
<1> QED BY <1>4, <1>5

\* Every option has the value that was asked for.
Right == \A loc \in DOMAIN val : \A name \in DOMAIN val[loc] : val[loc][name] = Wanted(loc, name)

LEMMA EndClose ==
  ASSUME StartAssumption, Common, EndInv, Close
  PROVE  UNCHANGED <<prog, argv>> /\ outcome' = "loaded" /\ Right'
<1>1. NL \in Nat /\ Len(jobs) = 1 /\ Items = argv /\ Len(argv) = Len(prog.cmd) /\ Len(prog.cmd) \in Nat
  BY EndJob
<1>2. outcome' = "loaded" /\ UNCHANGED <<prog, argv, val>> /\ pos > Len(prog.cmd) /\ pos \in Nat
  BY <1>1 DEF Close, EndInv
<1>3. ASSUME NEW loc \in DOMAIN val, NEW name \in DOMAIN val[loc] PROVE val[loc][name] = Wanted(loc, name)
  <2>1. loc \in Earlier(NL + 1) /\ name \in OptionsOf(loc)
    BY DEF EndInv, EndValues
  <2>2. val[loc][name] = LastRead(prog.cmd, Asked(loc, name), pos, FileValue(loc, name))
    BY <2>1 DEF EndInv, EndValues
  <2>3. LastRead(prog.cmd, Asked(loc, name), pos, FileValue(loc, name)) = LastValue(prog.cmd, Asked(loc, name), FileValue(loc, name))
    BY <1>1, <1>2, AskedIn, ReadAll
  <2> QED BY <2>1, <2>2, <2>3, WantedIs
<1>4. Right'
  BY <1>2, <1>3, ValuesSame DEF Right
<1> QED BY <1>2, <1>4

LEMMA EndRead ==
  ASSUME StartAssumption, Common, EndInv, pos \in 1..Len(prog.cmd), UNCHANGED <<prog, jobs, slots>>, pos' = pos + 1,
         CurrentAt(chosen', pos + 1), DOMAIN val' = DOMAIN val,
         \A loc \in Earlier(NL + 1) :
           /\ DOMAIN val'[loc] = OptionsOf(loc)
           /\ \A name \in OptionsOf(loc) :
                val'[loc][name] = IF pos \in Asked(loc, name) THEN Parsed(prog.cmd[pos].val) ELSE val[loc][name]
  PROVE  EndInv'
<1>1. Len(prog.cmd) \in Nat /\ pos \in Nat /\ pos + 1 \in 0..Len(prog.cmd) + 1 /\ pos + 1 # 0
  <2>1. Len(prog.cmd) \in Nat
    BY EndJob
  <2> QED BY <2>1
<1>2. ASSUME NEW loc \in Earlier(NL + 1), NEW name \in OptionsOf(loc)
      PROVE  val'[loc][name] = LastRead(prog.cmd, Asked(loc, name), pos + 1, FileValue(loc, name))
  <2>1. val[loc][name] = LastRead(prog.cmd, Asked(loc, name), pos, FileValue(loc, name))
    BY DEF EndInv, EndValues
  <2>2. LastRead(prog.cmd, Asked(loc, name), pos + 1, FileValue(loc, name)) =
          IF pos \in Asked(loc, name) THEN Parsed(prog.cmd[pos].val)
          ELSE LastRead(prog.cmd, Asked(loc, name), pos, FileValue(loc, name))
    BY <1>1, AskedIn, ReadNext
  <2> QED BY <2>1, <2>2
<1>3. EndValues'
  <2>1. /\ Earlier(NL + 1)' = Earlier(NL + 1)
        /\ \A loc : OptionsOf(loc)' = OptionsOf(loc)
        /\ \A loc, name : FileValue(loc, name)' = FileValue(loc, name) /\ Asked(loc, name)' = Asked(loc, name)
    BY ServerSame, LocsSame, FileSame
  <2> QED BY <1>2, <2>1 DEF EndInv, EndValues
<1>4. Current'
  <2>1. \A a : LangName(a)' = LangName(a) /\ VoiceNames(a)' = VoiceNames(a) /\ NV(a)' = NV(a)
    BY DEF LangName, VoiceNames, NV
  <2>2. NL' = NL /\ \A l, i : LangAt(i)' = LangAt(i) /\ VoiceThen(l, i)' = VoiceThen(l, i)
    BY EndSame DEF NL
  <2> QED BY <2>1, <2>2 DEF Current, CurrentAt
<1>5. IsRest(jobs, NL + 6)'
  BY ServerSame DEF EndInv, IsRest
<1> QED BY <1>1, <1>3, <1>4, <1>5 DEF EndInv

\* The argument that is read.
LEMMA EndItem ==
  ASSUME StartAssumption, Common, EndInv, ReadArgument
  PROVE  /\ NL \in Nat /\ pos \in 1..Len(prog.cmd) /\ pos \in Nat \ {0} /\ Item = argv[pos] /\ pos \in 1..Len(argv)
         /\ Item.name = prog.cmd[pos].name /\ Item.scope = prog.cmd[pos].scope /\ Item.val.is = prog.cmd[pos].val.is
         /\ Parsed(Item.val) = Parsed(prog.cmd[pos].val) /\ ScopeOf(Item) = ScopeOf(prog.cmd[pos])
         /\ Item.val.ascii = prog.cmd[pos].val.ascii
         /\ (prog.cmd[pos].val.layers = <<>> => Item.val.layers = <<>>)
         /\ AnOption(prog.cmd[pos]) /\ Item.name # "unit_levels" /\ (Item.name = "language" => Item.val.is # "")
         /\ Job.scope = "" /\ slots = 1 /\ Current
<1>1. NL \in Nat /\ Job.scope = "" /\ Items = argv /\ Len(argv) = Len(prog.cmd) /\ Len(prog.cmd) \in Nat
  BY EndJob
<1>2. pos \in 1..Len(prog.cmd) /\ Item = argv[pos] /\ pos \in 1..Len(argv)
  BY <1>1 DEF ReadArgument, Reading, Item
<1>3. pos \in Nat \ {0}
  <2>1. \A n \in Nat : \A i \in 1..n : i \in Nat \ {0}
    OBVIOUS
  <2> QED BY <1>1, <1>2, <2>1
<1>4. /\ Item.name = prog.cmd[pos].name /\ Item.scope = prog.cmd[pos].scope /\ Item.val.is = prog.cmd[pos].val.is
      /\ Parsed(Item.val) = Parsed(prog.cmd[pos].val) /\ Item.val.ascii = prog.cmd[pos].val.ascii
      /\ (prog.cmd[pos].val.layers = <<>> => Item.val.layers = <<>>)
  BY <1>2 DEF Common, ArgvOK
<1>5. ScopeOf(Item) = ScopeOf(prog.cmd[pos])
  BY <1>4 DEF ScopeOf
<1>6. AnOption(prog.cmd[pos]) /\ Item.name # "unit_levels" /\ (Item.name = "language" => Item.val.is # "")
  BY <1>2, <1>4, OrdinaryArgs DEF Common
<1>7. slots = 1 /\ Current
  BY <1>3 DEF EndInv
<1> QED BY <1>1, <1>2, <1>3, <1>4, <1>5, <1>6, <1>7

\* The language and the voice that are current are loaded.
LEMMA EndCurrent ==
  ASSUME StartAssumption, Common, EndInv, Current, pos # 0
  PROVE  /\ chosen.lang \in 1..NL /\ ThisLang = LangName(chosen.lang) /\ ThisLang = LangAt(pos)
         /\ ThisVoice = VoiceAt(pos) /\ Loaded
         /\ <<ThisLang>> \in Earlier(NL + 1) /\ <<ThisLang, ThisVoice>> \in Earlier(NL + 1) /\ <<>> \in Earlier(NL + 1)
<1>0. NL \in Nat /\ NL + 1 \in Nat /\ (NL + 1) - 1 = NL
  BY ProgramIs DEF Common
<1> DEFINE a == chosen.lang
           b == chosen.voice[LangName(a)]
<1>1. a \in 1..NL /\ ThisLang = LangName(a) /\ ThisLang = LangAt(pos)
  BY DEF Current, CurrentAt, ThisLang, LangName
<1>2. b \in 1..NV(a) /\ ThisVoice = VoiceNames(a)[b] /\ VoiceNames(a)[b] = VoiceThen(ThisLang, pos)
  BY <1>1 DEF Current, CurrentAt, ThisVoice, VoiceNames, LangName
<1>3. ThisVoice = VoiceAt(pos)
  BY <1>1, <1>2, VoiceAtIs
<1>4. <<ThisLang>> = LangAtLoc(a) /\ <<ThisLang, ThisVoice>> = VoiceLoc(a, b)
  BY <1>1, <1>2 DEF LangAtLoc, VoiceLoc
<1>5. LangAtLoc(a) \in Earlier(NL + 1) /\ VoiceLoc(a, b) \in Earlier(NL + 1) /\ <<>> \in Earlier(NL + 1)
  BY <1>0, <1>1, <1>2, EarlierIs
<1>6. Loaded
  <2>1. LangAtLoc(a) \in DOMAIN val /\ Len(LangAtLoc(a)) = 1
    BY <1>5 DEF EndInv, EndValues, LangAtLoc
  <2> QED BY <2>1 DEF Loaded
<1> QED BY <1>1, <1>3, <1>4, <1>5, <1>6

LEMMA EndUnknown ==
  ASSUME StartAssumption, Common, EndInv, ReadArgument, ~(Encoded(Item) /\ Understood(Item))
  PROVE  ~Sensible /\ Die
<1> DEFINE it == prog.cmd[pos]
<1>1. /\ pos \in 1..Len(prog.cmd) /\ Item.name = it.name /\ Item.scope = it.scope /\ ScopeOf(Item) = ScopeOf(it)
      /\ AnOption(it) /\ slots = 1 /\ Item.val.ascii = it.val.ascii
  BY EndItem
<1>2. it.name = "s" \/ ~it.val.ascii
  <2>1. ASSUME it.name # "s", Encoded(Item) PROVE FALSE
    <3>1. \/ ScopeOf(it) = "C" /\ it.name \in NamesOf("C") \cup {"language"}
          \/ ScopeOf(it) = "L" /\ it.name \in NamesOf("L") \cup {"voice"}
          \/ ScopeOf(it) = "V" /\ it.name \in NamesOf("V")
      BY <1>1, <2>1, OptionThere
    <3> HIDE DEF it
    <3>2. Understood(Item)
      BY <1>1, <3>1 DEF Understood
    <3> QED BY <2>1, <3>2
  <2> QED BY <1>1, <2>1 DEF Encoded
<1>3. ~Sensible
  BY <1>1, <1>2, Insensible
<1> QED BY <1>3 DEF ReadArgument

\* An argument that sets no option changes none.
LEMMA EndSwitch ==
  ASSUME StartAssumption, Common, EndInv, ReadArgument, Item.name \in {"language", "voice"},
         pos' = pos + 1, UNCHANGED <<prog, jobs, argv, val, slots, outcome>>, CurrentAt(chosen', pos + 1)
  PROVE  EndInv'
<1>1. pos \in 1..Len(prog.cmd) /\ Item.name = prog.cmd[pos].name
  BY EndItem
<1>2. ASSUME NEW loc \in Earlier(NL + 1), NEW name \in OptionsOf(loc) PROVE pos \notin Asked(loc, name)
  <2>1. name \notin {"language", "voice"}
    <3>1. {"language", "voice"} \cap (NamesOf("C") \cup NamesOf("L") \cup NamesOf("V") \cup SoftNames(prog, loc[1])) = {}
      BY DEF NamesOf, SoftNames
    <3>2. OptionsOf(loc) \subseteq NamesOf("C") \cup NamesOf("L") \cup NamesOf("V") \cup SoftNames(prog, loc[1])
      BY DEF OptionsOf
    <3> QED BY <3>1, <3>2
  <2> QED BY <1>1, <2>1 DEF Asked
<1>3. ASSUME NEW loc \in Earlier(NL + 1)
      PROVE  /\ DOMAIN val'[loc] = OptionsOf(loc)
             /\ \A name \in OptionsOf(loc) :
                  val'[loc][name] = IF pos \in Asked(loc, name) THEN Parsed(prog.cmd[pos].val) ELSE val[loc][name]
  BY <1>2 DEF EndInv, EndValues
<1> QED BY <1>1, <1>3, EndRead

LEMMA EndLanguage ==
  ASSUME StartAssumption, Common, EndInv, ReadArgument, Encoded(Item), Understood(Item), Item.name = "language"
  PROVE  /\ UNCHANGED <<prog, argv>>
         /\ (outcome' = "died" /\ ~Sensible) \/ (outcome' = outcome /\ EndInv')
<1> DEFINE it == prog.cmd[pos]
           names == [i \in 1..Len(prog.langs) |-> IF Loaded /\ prog.voices[prog.langs[i]] # <<>> THEN prog.langs[i] ELSE ""]
           Found(i) == i \in 1..Len(names) /\ names[i] = Item.val.is
           c == CHOOSE i \in 1..Len(names) : names[i] = Item.val.is
<1>1. /\ pos \in 1..Len(prog.cmd) /\ pos \in Nat \ {0} /\ Item.name = it.name /\ Item.val.is = it.val.is /\ Item.val.is # ""
      /\ Current /\ pos # 0 /\ (it.val.layers = <<>> => Item.val.layers = <<>>)
  BY EndItem
<1>2. Loaded
  BY <1>1, EndCurrent
<1>3. IF Item.val.layers = <<>> /\ \E i \in 1..Len(names) : names[i] = Item.val.is
      THEN /\ chosen' = [chosen EXCEPT !.lang = c] /\ pos' = pos + 1
           /\ UNCHANGED <<prog, jobs, argv, val, slots, outcome>>
      ELSE Die
  <2>1. ~Skipped
    BY <1>2 DEF Skipped
  <2> QED BY <2>1 DEF ReadArgument, Switch
<1>4. Len(names) = NL /\ NL \in Nat
  BY NoLangs DEF NL
<1>5. \A i \in 1..NL : names[i] = IF prog.voices[prog.langs[i]] # <<>> THEN prog.langs[i] ELSE ""
  BY <1>2 DEF NL
<1> HIDE DEF names
<1>6. CASE Item.val.layers = <<>> /\ \E i \in 1..Len(names) : names[i] = Item.val.is
  <2>1. c \in 1..NL /\ names[c] = Item.val.is
    BY <1>4, <1>6
  <2>2. LangName(c) = it.val.is /\ VoiceNames(c) # <<>>
    BY <1>1, <1>5, <2>1 DEF LangName, VoiceNames
  <2>3. NV(c) > 0
    BY <2>1, <2>2, NoVoices
  <2> HIDE DEF c
  <2>4. LangAt(pos + 1) = LangName(c)
    BY <1>1, <2>2, LangNext
  <2>5. \A l : VoiceThen(l, pos + 1) = VoiceThen(l, pos)
    <3>1. it.name # "voice"
      BY <1>1
    <3> QED BY <1>1, <3>1, VoiceNext
  <2>6. chosen' = [chosen EXCEPT !.lang = c] /\ chosen \in [lang : 1..NL, voice : [DOMAIN prog.voices -> Nat]]
    BY <1>1, <1>3, <1>6 DEF Current, CurrentAt
  <2>7. chosen' \in [lang : 1..NL, voice : [DOMAIN prog.voices -> Nat]] /\ chosen'.lang = c /\ chosen'.voice = chosen.voice
    BY <2>1, <2>6
  <2>8. CurrentAt(chosen', pos + 1)
    BY <1>1, <2>3, <2>4, <2>5, <2>7 DEF Current, CurrentAt
  <2>9. EndInv'
    BY <1>3, <1>6, <2>8, EndSwitch
  <2> QED BY <1>3, <1>6, <2>9
<1>7. CASE ~(Item.val.layers = <<>> /\ \E i \in 1..Len(names) : names[i] = Item.val.is)
  <2>1. Die
    BY <1>3, <1>7
  <2>2. ASSUME Sensible PROVE FALSE
    <3>1. /\ \A i \in 1..NL : prog.voices[prog.langs[i]] # <<>>
          /\ it.val.layers = <<>> /\ \E k \in 1..NL : prog.langs[k] = it.val.is
      BY <1>1, <2>2 DEF Sensible, NL
    <3> QED BY <1>1, <1>4, <1>5, <1>7, <3>1
  <2> QED BY <2>1, <2>2 DEF Die
<1> QED BY <1>6, <1>7

LEMMA EndVoice ==
  ASSUME StartAssumption, Common, EndInv, ReadArgument, Encoded(Item), Understood(Item), Item.name = "voice"
  PROVE  /\ UNCHANGED <<prog, argv>>
         /\ (outcome' = "died" /\ ~Sensible) \/ (outcome' = outcome /\ EndInv')
<1> DEFINE it == prog.cmd[pos]
           a == chosen.lang
           names == prog.voices[ThisLang]
           c == CHOOSE i \in 1..Len(names) : names[i] = Item.val.is
<1>1. /\ pos \in 1..Len(prog.cmd) /\ pos \in Nat \ {0} /\ Item.name = it.name /\ Item.val.is = it.val.is
      /\ Current /\ pos # 0 /\ (it.val.layers = <<>> => Item.val.layers = <<>>)
  BY EndItem
<1>2. /\ Loaded /\ a \in 1..NL /\ ThisLang = LangName(a) /\ ThisLang = LangAt(pos) /\ names = VoiceNames(a)
  BY <1>1, EndCurrent DEF VoiceNames, LangName
<1>3. IF Item.val.layers = <<>> /\ \E i \in 1..Len(names) : names[i] = Item.val.is
      THEN /\ chosen' = [chosen EXCEPT !.voice[ThisLang] = c] /\ pos' = pos + 1
           /\ UNCHANGED <<prog, jobs, argv, val, slots, outcome>>
      ELSE Die
  <2>1. ~Skipped /\ Item.name # "language"
    BY <1>2 DEF Skipped
  <2> QED BY <2>1 DEF ReadArgument, Switch
<1>4. CASE Item.val.layers = <<>> /\ \E i \in 1..Len(names) : names[i] = Item.val.is
  <2>1. c \in 1..NV(a) /\ names[c] = it.val.is
    BY <1>1, <1>2, <1>4 DEF NV
  <2> HIDE DEF c, names
  <2>2. LangAt(pos + 1) = LangAt(pos)
    <3>1. it.name # "language"
      BY <1>1
    <3> QED BY <1>1, <3>1, LangNext
  <2>3. \A l : VoiceThen(l, pos + 1) = IF l = ThisLang THEN it.val.is ELSE VoiceThen(l, pos)
    BY <1>1, <1>2, VoiceNext
  <2>4. chosen' = [chosen EXCEPT !.voice[ThisLang] = c] /\ chosen \in [lang : 1..NL, voice : [DOMAIN prog.voices -> Nat]]
    BY <1>1, <1>3, <1>4 DEF Current, CurrentAt
  <2>5. c \in Nat
    <3>1. NV(a) \in Nat
      BY <1>2, NoVoices
    <3> QED BY <2>1, <3>1
  <2>6. /\ chosen' \in [lang : 1..NL, voice : [DOMAIN prog.voices -> Nat]] /\ chosen'.lang = a
        /\ \A l \in DOMAIN prog.voices : chosen'.voice[l] = IF l = ThisLang THEN c ELSE chosen.voice[l]
    BY <2>4, <2>5
  <2>7. ASSUME NEW n \in 1..NL, NV(n) > 0
        PROVE  /\ chosen'.voice[LangName(n)] \in 1..NV(n)
               /\ VoiceNames(n)[chosen'.voice[LangName(n)]] = VoiceThen(LangName(n), pos + 1)
    <3>1. LangName(n) \in DOMAIN prog.voices
      BY ProgramIs DEF Common
    <3>2. CASE LangName(n) = ThisLang
      <4>1. VoiceNames(n) = names /\ NV(n) = NV(a)
        BY <1>2, <3>2 DEF VoiceNames, LangName, NV
      <4> QED BY <2>1, <2>3, <2>6, <3>1, <3>2, <4>1
    <3>3. CASE LangName(n) # ThisLang
      BY <1>1, <2>3, <2>6, <2>7, <3>1, <3>3 DEF Current, CurrentAt
    <3> QED BY <3>2, <3>3
  <2>8. CurrentAt(chosen', pos + 1)
    BY <1>1, <1>2, <2>2, <2>6, <2>7 DEF Current, CurrentAt
  <2>9. EndInv'
    BY <1>3, <1>4, <2>8, EndSwitch DEF names
  <2> QED BY <1>3, <1>4, <2>9 DEF names
<1>5. CASE ~(Item.val.layers = <<>> /\ \E i \in 1..Len(names) : names[i] = Item.val.is)
  <2>1. Die
    BY <1>3, <1>5
  <2>2. ASSUME Sensible PROVE FALSE
    <3>1. it.val.layers = <<>> /\ \E k \in 1..Len(prog.voices[LangAt(pos)]) : prog.voices[LangAt(pos)][k] = it.val.is
      BY <1>1, <2>2 DEF Sensible
    <3> QED BY <1>1, <1>2, <1>5, <3>1
  <2> QED BY <2>1, <2>2 DEF Die
<1> QED BY <1>4, <1>5

LEMMA EndOption ==
  ASSUME StartAssumption, Common, EndInv, ReadArgument, Encoded(Item), Understood(Item), Item.name \notin {"language", "voice"}
  PROVE  ArgvOK' /\ UNCHANGED <<prog, outcome>> /\ EndInv'
<1> DEFINE it == prog.cmd[pos]
<1>1. /\ NL \in Nat /\ pos \in 1..Len(prog.cmd) /\ pos \in Nat \ {0} /\ Item = argv[pos] /\ pos \in 1..Len(argv)
      /\ Item.name = it.name /\ ScopeOf(Item) = ScopeOf(it) /\ Parsed(Item.val) = Parsed(it.val)
      /\ AnOption(it) /\ Item.name # "unit_levels" /\ Job.scope = "" /\ slots = 1 /\ Current /\ pos # 0
  BY EndItem
<1>2. /\ ThisLang = LangAt(pos) /\ ThisVoice = VoiceAt(pos) /\ Loaded
      /\ <<ThisLang>> \in Earlier(NL + 1) /\ <<ThisLang, ThisVoice>> \in Earlier(NL + 1) /\ <<>> \in Earlier(NL + 1)
  BY <1>1, EndCurrent
<1>3. ScopeOf(it) \in {"C", "L", "V"} /\ it.name \in NamesOf(ScopeOf(it)) /\ it.name # "s"
  <2>1. it.name # "s"
    <3>1. "s" \notin NamesOf("C") \cup NamesOf("L") \cup NamesOf("V")
      BY DEF NamesOf
    <3>2. ScopeOf(it) \in {"C", "L", "V"}
      BY <1>1 DEF ScopeOf, AnOption
    <3>3. it.name \in NamesOf(ScopeOf(it)) \cup {"language", "voice"}
      BY <1>1 DEF Understood
    <3> QED BY <3>1, <3>2, <3>3
  <2>2. \/ ScopeOf(it) = "C" /\ it.name \in NamesOf("C") \cup {"language"}
        \/ ScopeOf(it) = "L" /\ it.name \in NamesOf("L") \cup {"voice"}
        \/ ScopeOf(it) = "V" /\ it.name \in NamesOf("V")
    BY <1>1, <2>1, OptionThere
  <2>3. it.name \notin {"language", "voice"}
    BY <1>1
  <2> QED BY <2>1, <2>2, <2>3
<1>4. PICK at : at = CASE ScopeOf(it) = "C" -> <<>>
                       [] ScopeOf(it) = "L" -> <<ThisLang>>
                       [] ScopeOf(it) = "V" -> <<ThisLang, ThisVoice>>
  OBVIOUS
<1>5. SetAt(at)
  <2>1. ~Skipped /\ Item.name # "language" /\ Item.name # "voice"
    BY <1>2 DEF Skipped
  <2> QED BY <1>1, <1>4, <2>1 DEF ReadArgument
<1>6. at \in Earlier(NL + 1) /\ Kind(at) = ScopeOf(it) /\ NamesOf(ScopeOf(it)) \subseteq OptionsOf(at)
  <2>1. CASE ScopeOf(it) = "C"
    <3>1. at = <<>> /\ Len(<<>>) = 0
      BY <1>4, <2>1
    <3> QED BY <1>2, <2>1, <3>1 DEF Kind, OptionsOf
  <2>2. CASE ScopeOf(it) = "L"
    <3>1. at = <<ThisLang>> /\ Len(<<ThisLang>>) = 1
      BY <1>4, <2>2
    <3> QED BY <1>2, <2>2, <3>1 DEF Kind, OptionsOf
  <2>3. CASE ScopeOf(it) = "V"
    <3>1. at = <<ThisLang, ThisVoice>> /\ Len(<<ThisLang, ThisVoice>>) = 2
      BY <1>4, <2>3
    <3> QED BY <1>2, <2>3, <3>1 DEF Kind, OptionsOf
  <2> QED BY <1>3, <2>1, <2>2, <2>3
<1>7. at \in DOMAIN val /\ Item.name \in DOMAIN val[at] /\ DOMAIN val = Earlier(NL + 1)
  BY <1>1, <1>3, <1>6 DEF EndInv, EndValues
<1>8. /\ Sets(at, Item) /\ argv' = Spent /\ pos' = pos + 1
      /\ UNCHANGED <<prog, jobs, chosen, outcome>> /\ slots' = slots
  BY <1>1, <1>5, <1>7, SetIs
<1>9. ArgvOK'
  <2>1. argv' = [argv EXCEPT ![pos].val = Parsed(@)]
    BY <1>1, <1>8 DEF Spent
  <2>2. Len(prog.cmd) \in Nat
    BY EndJob
  <2> QED BY <1>1, <1>8, <2>1, <2>2, ArgvSpent DEF Common
<1>10. CurrentAt(chosen', pos + 1)
  <2>1. it.name # "language" /\ it.name # "voice"
    BY <1>1
  <2>2. LangAt(pos + 1) = LangAt(pos) /\ \A l : VoiceThen(l, pos + 1) = VoiceThen(l, pos)
    BY <1>1, <2>1, LangNext, VoiceNext
  <2> QED BY <1>1, <1>8, <2>2 DEF Current, CurrentAt
<1>11. ASSUME NEW loc \in Earlier(NL + 1), NEW name \in OptionsOf(loc)
       PROVE  pos \in Asked(loc, name) <=> loc = at /\ name = Item.name
  <2>1. pos \in Asked(loc, name) <=> /\ it.name = name /\ Means(it, Kind(loc))
                                     /\ Len(loc) >= 1 => LangAt(pos) = loc[1]
                                     /\ Len(loc) = 2 => VoiceAt(pos) = loc[2]
    BY <1>1 DEF Asked
  <2>2. ASSUME pos \in Asked(loc, name) PROVE loc = at /\ name = Item.name
    <3>1. it.name = name /\ Means(it, Kind(loc)) /\ name # "s"
      BY <1>3, <2>1, <2>2
    <3>2. Kind(loc) \in {"C", "L", "V"} /\ name \in NamesOf(Kind(loc))
      BY <3>1, Shapes DEF SoftNames
    <3>3. ScopeOf(it) = Kind(loc)
      BY <1>1, <3>1, <3>2, MeansScope
    <3>4. CASE Kind(loc) = "C"
      <4>1. loc = <<>>
        BY <3>4, Shapes
      <4> QED BY <1>1, <1>4, <3>1, <3>3, <3>4, <4>1
    <3>5. CASE Kind(loc) = "L"
      <4>1. loc = <<loc[1]>> /\ Len(loc) = 1
        BY <3>5, Shapes
      <4>2. loc[1] = ThisLang
        BY <1>2, <2>1, <2>2, <4>1
      <4>3. at = <<ThisLang>>
        BY <1>4, <3>3, <3>5
      <4> QED BY <1>1, <3>1, <4>1, <4>2, <4>3
    <3>6. CASE Kind(loc) = "V"
      <4>1. loc = <<loc[1], loc[2]>> /\ Len(loc) = 2
        BY <3>6, Shapes
      <4>2. loc[1] = ThisLang /\ loc[2] = ThisVoice
        BY <1>2, <2>1, <2>2, <4>1
      <4>3. at = <<ThisLang, ThisVoice>>
        BY <1>4, <3>3, <3>6
      <4> QED BY <1>1, <3>1, <4>1, <4>2, <4>3
    <3> QED BY <3>2, <3>4, <3>5, <3>6
  <2>3. ASSUME loc = at, name = Item.name PROVE pos \in Asked(loc, name)
    <3>1. it.name = name /\ Means(it, Kind(loc))
      BY <1>1, <1>3, <1>6, <2>3, MeansScope
    <3>2. CASE ScopeOf(it) = "C"
      <4>1. loc = <<>> /\ Len(<<>>) = 0
        BY <1>4, <2>3, <3>2
      <4> QED BY <2>1, <3>1, <4>1
    <3>3. CASE ScopeOf(it) = "L"
      <4>1. loc[1] = ThisLang /\ Len(loc) = 1
        BY <1>4, <2>3, <3>3
      <4> QED BY <1>2, <2>1, <3>1, <4>1
    <3>4. CASE ScopeOf(it) = "V"
      <4>1. loc[1] = ThisLang /\ loc[2] = ThisVoice
        BY <1>4, <2>3, <3>4
      <4> QED BY <1>2, <2>1, <3>1, <4>1
    <3> QED BY <1>3, <3>2, <3>3, <3>4
  <2> QED BY <2>2, <2>3
<1>12. ASSUME NEW loc \in Earlier(NL + 1)
       PROVE  /\ DOMAIN val'[loc] = OptionsOf(loc)
              /\ \A name \in OptionsOf(loc) :
                   val'[loc][name] = IF pos \in Asked(loc, name) THEN Parsed(prog.cmd[pos].val) ELSE val[loc][name]
  <2>1. loc \in DOMAIN val /\ DOMAIN val[loc] = OptionsOf(loc)
    BY DEF EndInv, EndValues
  <2>2. DOMAIN val'[loc] = OptionsOf(loc)
    BY <1>8, <2>1 DEF Sets
  <2>3. ASSUME NEW name \in OptionsOf(loc)
        PROVE  val'[loc][name] = IF pos \in Asked(loc, name) THEN Parsed(prog.cmd[pos].val) ELSE val[loc][name]
    <3>1. val'[loc][name] = IF loc = at /\ name = Item.name THEN Parsed(Item.val) ELSE val[loc][name]
      BY <1>8, <2>1 DEF Sets
    <3> QED BY <1>1, <1>11, <3>1
  <2> QED BY <2>2, <2>3
<1>13. DOMAIN val' = DOMAIN val
  BY <1>8 DEF Sets
<1>14. EndInv'
  BY <1>1, <1>8, <1>10, <1>12, <1>13, EndRead
<1> QED BY <1>8, <1>9, <1>14

LEMMA EndArg ==
  ASSUME StartAssumption, Common, EndInv, ReadArgument
  PROVE  /\ prog' = prog /\ ArgvOK'
         /\ (outcome' = "died" /\ ~Sensible) \/ (outcome' = outcome /\ EndInv')
<1>1. ASSUME UNCHANGED <<prog, argv>> PROVE ArgvOK'
  BY <1>1 DEF Common, ArgvOK, ArgSet
<1>2. CASE ~(Encoded(Item) /\ Understood(Item))
  <2>1. ~Sensible /\ Die
    BY <1>2, EndUnknown
  <2> QED BY <1>1, <2>1 DEF Die
<1>3. CASE Encoded(Item) /\ Understood(Item) /\ Item.name = "language"
  BY <1>1, <1>3, EndLanguage
<1>4. CASE Encoded(Item) /\ Understood(Item) /\ Item.name = "voice"
  BY <1>1, <1>4, EndVoice
<1>5. CASE Encoded(Item) /\ Understood(Item) /\ Item.name \notin {"language", "voice"}
  BY <1>5, EndOption
<1> QED BY <1>2, <1>3, <1>4, <1>5

-----------------------------------------------------------------------------
(* Every job, and the theorem.                                             *)

Loading ==
  \/ \E j \in 1..5 : ServerInv(j)
  \/ \E a \in 1..NL : LangInv(a)
  \/ \E a \in 1..NL : \E b \in 1..NV(a) : VoiceInv(a, b)
  \/ \E a \in 1..NL + 1 : Reached(a)
  \/ EndInv

StartInv ==
  /\ Common
  /\ \/ outcome \in {"died", "crashed"} /\ ~Sensible
     \/ outcome = "loading" /\ Loading
     \/ outcome = "loaded" /\ Right

LEMMA CommonNext ==
  ASSUME Common, prog' = prog, ArgvOK'
  PROVE  Common'
BY DEF Common

LEMMA CommonStays ==
  ASSUME Common, UNCHANGED <<prog, argv>>
  PROVE  Common'
<1>1. ArgvOK'
  BY DEF Common, ArgvOK, ArgSet
<1> QED BY <1>1, CommonNext

LEMMA StartBegins == ASSUME StartAssumption, StartInit, Ordinary(prog) PROVE StartInv
<1>1. prog \in Programs /\ jobs = Jobs(prog) /\ pos = 0 /\ argv = prog.cmd /\ slots = 0 /\ outcome = "loading"
      /\ val = [loc \in {<<>>} |-> [n \in NamesOf("C") |-> Initial]] /\ chosen = FirstChoice
  BY DEF StartInit, FirstChoice
<1>2. ArgvOK
  <2>1. prog.cmd \in Seq(Range(prog.cmd)) /\ Len(prog.cmd) \in Nat
    BY <1>1, ProgramIs, ItemsAre
  <2>2. \A i \in 1..Len(prog.cmd) : prog.cmd[i] \in ArgSet /\ Len(prog.cmd[i].val.layers) <= 1
    BY <1>1, OrdinaryArgs
  <2>3. prog.cmd \in Seq(ArgSet)
    <3> DEFINE c == prog.cmd
    <3>1. c \in Seq(Range(c)) /\ \A i \in 1..Len(c) : c[i] \in ArgSet
      BY <2>1, <2>2
    <3> HIDE DEF c
    <3>2. c \in Seq(ArgSet)
      BY <3>1
    <3> QED BY <3>2 DEF c
  <2> QED BY <1>1, <2>1, <2>2, <2>3 DEF ArgvOK
<1>3. Common
  BY <1>1, <1>2 DEF Common
<1>4. ServerInv(1)
  <2>1. IsRest(jobs, 1)
    BY <1>1, JobsAre
  <2>2. Len(ServerItems(1)) \in Nat
    BY <1>1, ServerSetIn
  <2>3. \A name : LastRead(ServerItems(1), ServerSet(1, name), 0, ServerFrom(1, name)) = Initial
    BY <1>1, ServerBegins DEF ServerFrom
  <2>4. \A k \in 1..Len(prog.cmd) : ~(1 > 1) /\ ~(k < 0)
    OBVIOUS
  <2>5. 0 \in 0..Len(ServerItems(1)) + 1
    BY <2>2
  <2>6. DOMAIN val = {<<>>} /\ DOMAIN val[<<>>] = NamesOf("C") /\ \A name \in NamesOf("C") : val[<<>>][name] = Initial
    BY <1>1
  <2> QED BY <1>1, <2>1, <2>3, <2>4, <2>5, <2>6 DEF ServerInv
<1> QED BY <1>1, <1>3, <1>4 DEF StartInv, Loading

LEMMA SensibleSame == ASSUME prog' = prog PROVE Sensible' <=> Sensible
BY DEF Sensible, LangAt

LEMMA LoadingSame ==
  ASSUME prog' = prog
  PROVE  /\ (\E j \in 1..5 : ServerInv(j)') => Loading'
         /\ (\E a \in 1..NL : LangInv(a)') => Loading'
         /\ (\E a \in 1..NL : \E b \in 1..NV(a) : VoiceInv(a, b)') => Loading'
         /\ (\E a \in 1..NL + 1 : Reached(a)') => Loading'
         /\ EndInv' => Loading'
BY ServerSame, LocsSame DEF Loading

LEMMA ServerStep ==
  ASSUME StartAssumption, Common, outcome = "loading", NEW j \in 1..5, ServerInv(j), StartNext
  PROVE  StartInv'
<1>0. NL \in Nat /\ 1 \in 1..NL + 1
  BY ProgramIs DEF Common
<1>1. CASE Open
  <2>1. ServerInv(j)' /\ UNCHANGED <<prog, argv, outcome>>
    BY <1>1, ServerOpen
  <2> QED BY <2>1, CommonStays, LoadingSame DEF StartInv
<1>2. CASE Close
  <2>1. UNCHANGED <<prog, argv, outcome>>
    BY <1>2, ServerClose
  <2>2. Loading'
    <3>1. CASE j < 5
      <4>1. ServerInv(j + 1)' /\ j + 1 \in 1..5
        BY <1>2, <3>1, ServerClose
      <4> QED BY <2>1, <4>1, LoadingSame
    <3>2. CASE ~(j < 5)
      <4>1. IsRest(jobs, 6)' /\ pos' = 0 /\ slots' = 1 /\ chosen' = FirstChoice /\ Ready'
        BY <1>2, <3>2, ServerClose
      <4>2. Reached(1)'
        BY <2>1, <4>1, ReachedFirst
      <4> QED BY <1>0, <2>1, <4>2, LoadingSame
    <3> QED BY <3>1, <3>2
  <2> QED BY <2>1, <2>2, CommonStays DEF StartInv
<1>3. CASE ReadArgument
  <2>1. prog' = prog /\ ArgvOK' /\ ((outcome' = "died" /\ ~Sensible) \/ (outcome' = outcome /\ ServerInv(j)'))
    BY <1>3, ServerArg
  <2>2. Common' /\ (Sensible' <=> Sensible)
    BY <2>1, CommonNext, SensibleSame
  <2> QED BY <2>1, <2>2, LoadingSame DEF StartInv
<1>4. CASE ReadLine
  <2>1. prog' = prog /\ ArgvOK' /\ outcome' = outcome /\ ServerInv(j)'
    BY <1>4, ServerLine
  <2> QED BY <2>1, CommonNext, LoadingSame DEF StartInv
<1> QED BY <1>1, <1>2, <1>3, <1>4 DEF StartNext

LEMMA LangStep ==
  ASSUME StartAssumption, Common, outcome = "loading", NEW a \in 1..NL, LangInv(a), StartNext
  PROVE  StartInv'
<1>0. NL \in Nat /\ a + 1 \in 1..NL + 1 /\ Job.scope = "L"
  <2>1. Job.scope = "L"
    <3>1. Len(LangAtLoc(a)) = 1
      BY DEF LangAtLoc
    <3> QED BY <3>1, LangJob DEF LangInv, IsFile
  <2> QED BY <2>1, ProgramIs DEF Common
<1>1. CASE Open
  BY <1>1, LangOpen, CommonStays, LoadingSame DEF StartInv
<1>2. CASE Close
  <2>1. UNCHANGED <<prog, argv, outcome>> /\ (Reached(a + 1)' \/ (1 \in 1..NV(a) /\ VoiceInv(a, 1)'))
    BY <1>2, LangClose
  <2>2. Loading'
    BY <1>0, <2>1, LoadingSame
  <2> QED BY <2>1, <2>2, CommonStays DEF StartInv
<1>3. CASE ReadArgument
  BY <1>0, <1>3 DEF ReadArgument, Reading
<1>4. CASE ReadLine
  BY <1>4, LangLine, CommonStays, LoadingSame DEF StartInv
<1> QED BY <1>1, <1>2, <1>3, <1>4 DEF StartNext

LEMMA VoiceStep ==
  ASSUME StartAssumption, Common, outcome = "loading", NEW a \in 1..NL, NEW b \in 1..NV(a), VoiceInv(a, b), StartNext
  PROVE  StartInv'
<1>0. NL \in Nat /\ a + 1 \in 1..NL + 1 /\ Job.scope = "V"
  <2>1. Job.scope = "V"
    <3>1. Len(VoiceLoc(a, b)) = 2 /\ 2 # 1
      BY DEF VoiceLoc
    <3>2. IsFile(Locs(a, b), VoiceLoc(a, b))
      BY VoiceJobIs DEF VoiceInv
    <3>3. Job.scope = IF Len(VoiceLoc(a, b)) = 1 THEN "L" ELSE "V"
      BY <3>2 DEF IsFile
    <3> QED BY <3>1, <3>3
  <2> QED BY <2>1, ProgramIs DEF Common
<1>1. CASE Open
  BY <1>1, VoiceOpen, CommonStays, LoadingSame DEF StartInv
<1>2. CASE Close
  <2>1. UNCHANGED <<prog, argv, outcome>> /\ (Reached(a + 1)' \/ (b + 1 \in 1..NV(a) /\ VoiceInv(a, b + 1)'))
    BY <1>2, VoiceClose
  <2>2. Loading'
    BY <1>0, <2>1, LoadingSame
  <2> QED BY <2>1, <2>2, CommonStays DEF StartInv
<1>3. CASE ReadArgument
  BY <1>0, <1>3 DEF ReadArgument, Reading
<1>4. CASE ReadLine
  BY <1>4, VoiceLine, CommonStays, LoadingSame DEF StartInv
<1> QED BY <1>1, <1>2, <1>3, <1>4 DEF StartNext

LEMMA EndStep ==
  ASSUME StartAssumption, Common, outcome = "loading", EndInv, StartNext
  PROVE  StartInv'
<1>1. CASE Open
  <2>1. UNCHANGED <<prog, argv>> /\ ((outcome' = "crashed" /\ ~Sensible) \/ (outcome' = outcome /\ EndInv'))
    BY <1>1, EndOpen
  <2>2. Common' /\ (Sensible' <=> Sensible)
    BY <2>1, CommonStays, SensibleSame
  <2> QED BY <2>1, <2>2, LoadingSame DEF StartInv
<1>2. CASE Close
  BY <1>2, EndClose, CommonStays DEF StartInv
<1>3. CASE ReadArgument
  <2>1. prog' = prog /\ ArgvOK' /\ ((outcome' = "died" /\ ~Sensible) \/ (outcome' = outcome /\ EndInv'))
    BY <1>3, EndArg
  <2>2. Common' /\ (Sensible' <=> Sensible)
    BY <2>1, CommonNext, SensibleSame
  <2> QED BY <2>1, <2>2, LoadingSame DEF StartInv
<1>4. CASE ReadLine
  <2>1. Job.scope = ""
    BY EndJob
  <2> QED BY <1>4, <2>1 DEF ReadLine, Reading
<1> QED BY <1>1, <1>2, <1>3, <1>4 DEF StartNext

LEMMA StartStep == ASSUME StartAssumption, StartInv, StartNext PROVE StartInv'
<1>1. Common /\ outcome = "loading" /\ Loading
  BY DEF StartInv, StartNext, Open, Close, ReadArgument, ReadLine, Reading
<1>2. CASE \E j \in 1..5 : ServerInv(j)
  BY <1>1, <1>2, ServerStep
<1>3. CASE \E a \in 1..NL : LangInv(a)
  BY <1>1, <1>3, LangStep
<1>4. CASE \E a \in 1..NL : \E b \in 1..NV(a) : VoiceInv(a, b)
  BY <1>1, <1>4, VoiceStep
<1>5. CASE \E a \in 1..NL + 1 : Reached(a)
  <2>1. PICK a \in 1..NL + 1 : Reached(a)
    BY <1>5
  <2>2. NL \in Nat
    BY <1>1, NoLangs
  <2>3. a \in 1..NL \/ a = NL + 1
    BY <2>2
  <2>4. CASE a \in 1..NL
    BY <1>1, <2>1, <2>4, ReachedLang, LangStep
  <2>5. CASE a = NL + 1
    BY <1>1, <2>1, <2>5, ReachedEnd, EndStep
  <2> QED BY <2>3, <2>4, <2>5
<1>6. CASE EndInv
  BY <1>1, <1>6, EndStep
<1> QED BY <1>1, <1>2, <1>3, <1>4, <1>5, <1>6 DEF Loading

LEMMA StartStays == ASSUME StartInv, UNCHANGED startVars PROVE StartInv'
<1>1. UNCHANGED <<prog, jobs, pos, argv, val, chosen, slots, outcome>> /\ Common'
  BY CommonStays DEF startVars, StartInv
<1>2. CASE outcome \in {"died", "crashed"}
  BY <1>1, <1>2, SensibleSame DEF StartInv
<1>3. CASE outcome = "loaded"
  <2>1. Right'
    BY <1>1, <1>3, ValuesSame DEF StartInv, Right
  <2> QED BY <1>1, <1>3, <2>1 DEF StartInv
<1>4. CASE outcome = "loading"
  <2>0. /\ NL' = NL /\ FirstChoice' = FirstChoice /\ Levels' = Levels
        /\ \A j : IsRest(jobs, j)' <=> IsRest(jobs, j)
    BY <1>1, ServerSame DEF IsRest
  <2>1. \A j : ServerInv(j) => ServerInv(j)'
    BY <1>1, <2>0, ServerSame DEF ServerInv
  <2>2. ASSUME NEW D, NEW cur, FileState(D, cur) PROVE FileState(D, cur)'
    <3>1. Settled(D)'
      BY <1>1, <2>2, FileSame DEF FileState, Settled
    <3>2. FileOf(cur)' = FileOf(cur) /\ OptionsOf(cur)' = OptionsOf(cur) /\ \A name : FileFrom(cur, name)' = FileFrom(cur, name)
      BY <1>1, FileSame
    <3> QED BY <1>1, <2>0, <2>2, <3>1, <3>2 DEF FileState
  <2>3. ASSUME NEW a, LangInv(a) PROVE LangInv(a)'
    <3>1. PICK D, cur : D = Earlier(a) /\ cur = LangAtLoc(a)
      OBVIOUS
    <3>2. FileState(D, cur)'
      BY <2>2, <2>3, <3>1 DEF LangInv
    <3>3. Earlier(a)' = D /\ LangAtLoc(a)' = cur
      BY <1>1, <3>1, LocsSame
    <3>4. FileState(Earlier(a), LangAtLoc(a))'
      BY <3>2, <3>3 DEF FileState, Settled
    <3> QED BY <2>0, <2>3, <3>4 DEF LangInv
  <2>4. ASSUME NEW a, NEW b, VoiceInv(a, b) PROVE VoiceInv(a, b)'
    <3>1. PICK D, cur : D = Locs(a, b) /\ cur = VoiceLoc(a, b)
      OBVIOUS
    <3>2. FileState(D, cur)'
      BY <2>2, <2>4, <3>1 DEF VoiceInv
    <3>3. Locs(a, b)' = D /\ VoiceLoc(a, b)' = cur
      BY <1>1, <3>1, LocsSame
    <3>4. FileState(Locs(a, b), VoiceLoc(a, b))'
      BY <3>2, <3>3 DEF FileState, Settled
    <3>5. IsVoices(jobs, a, b)'
      BY <1>1, <2>4, ServerSame, LocsSame DEF VoiceInv, IsVoices
    <3> QED BY <3>4, <3>5 DEF VoiceInv
  <2>5. ASSUME NEW a, Reached(a) PROVE Reached(a)'
    <3>1. Settled(Earlier(a))'
      BY <1>1, <2>5, FileSame, LocsSame DEF Reached, Settled
    <3> QED BY <1>1, <2>0, <2>5, <3>1, LocsSame DEF Reached
  <2>6. ASSUME EndInv PROVE EndInv'
    <3>1. EndValues'
      <4>1. /\ Earlier(NL + 1)' = Earlier(NL + 1)
            /\ \A loc : OptionsOf(loc)' = OptionsOf(loc)
            /\ \A loc, name : FileValue(loc, name)' = FileValue(loc, name) /\ Asked(loc, name)' = Asked(loc, name)
        BY <1>1, ServerSame, LocsSame, FileSame
      <4> QED BY <1>1, <2>6, <4>1 DEF EndInv, EndValues
    <3>2. Current' <=> Current
      <4>1. \A a : LangName(a)' = LangName(a) /\ VoiceNames(a)' = VoiceNames(a) /\ NV(a)' = NV(a)
        BY <1>1 DEF LangName, VoiceNames, NV
      <4>2. NL' = NL /\ \A l, i : LangAt(i)' = LangAt(i) /\ VoiceThen(l, i)' = VoiceThen(l, i)
        BY <1>1, EndSame DEF NL
      <4> QED BY <1>1, <4>1, <4>2 DEF Current, CurrentAt
    <3>3. IsRest(jobs, NL + 6)'
      BY <2>0, <2>6 DEF EndInv, IsRest
    <3> QED BY <1>1, <2>0, <2>6, <3>1, <3>2, <3>3 DEF EndInv
  <2>7. Loading
    BY <1>4 DEF StartInv
  <2>8. Loading'
    BY <1>1, <2>1, <2>3, <2>4, <2>5, <2>6, <2>7, LoadingSame DEF Loading
  <2> QED BY <1>1, <1>4, <2>8 DEF StartInv
<1> QED BY <1>2, <1>3, <1>4 DEF StartInv

LEMMA StartConfigured == ASSUME StartInv PROVE Configured
BY DEF StartInv, Configured, Precedence, Starts, Right

\* A configuration that is sensible is loaded, and every option of the server, of every language
\* and of every voice ends with the value of the argument that means it, or else of the most
\* special file, whatever languages, voices, files and arguments there are.
THEOREM OptionsConfigured == StartSpec => [](Ordinary(prog) => Configured)
<1>1. StartInit => (Ordinary(prog) => StartInv)
  BY StartAssumption, StartBegins
<1>2. (Ordinary(prog) => StartInv) /\ [StartNext]_startVars => (Ordinary(prog) => StartInv)'
  <2>1. SUFFICES ASSUME Ordinary(prog) => StartInv, [StartNext]_startVars, Ordinary(prog)' PROVE StartInv'
    OBVIOUS
  <2>2. prog' = prog
    BY <2>1 DEF StartNext, Open, Close, ReadArgument, ReadLine, Die, SetAt, SetLevels, Switch, startVars
  <2>3. StartInv
    BY <2>1, <2>2
  <2> QED BY <2>1, <2>3, StartAssumption, StartStep, StartStays
<1>3. (Ordinary(prog) => StartInv) => (Ordinary(prog) => Configured)
  BY StartConfigured
<1> QED BY <1>1, <1>2, <1>3, PTL DEF StartSpec
=============================================================================
