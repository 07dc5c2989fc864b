----------------------- MODULE PlaintextMigration_proofs -----------------------
(***************************************************************************)
(* Proofs about DatabaseOpening and PlaintextMigration, for every value of *)
(* the constants: any number of processes, files of any size that earlier  *)
(* releases can have left, any number of targets and keys.                 *)
(***************************************************************************)
EXTENDS PlaintextMigration, TLAPS

-----------------------------------------------------------------------------
(* What the parts of a migration make of a file.                           *)

(* The table that a missing part of a file leaves empty.                   *)
LEMMA NewFileSound == IsFile(NewFile) /\ SoundFile(NewFile) /\ NewFile.features = {}
<1>1. /\ NewFile.messages = NoRows /\ NewFile.security = NoRows
      /\ NewFile.features = {} /\ NewFile.queues = {} /\ NewFile.oldWindows = {}
      /\ NewFile.perGroup = {} /\ NewFile.keys = {}
  BY DEF NewFile
<1>2. DOMAIN NoRows = {} /\ \A S : NoRows \in [{} -> S]
  BY DEF NoRows
<1>3. NewFile = [features |-> NewFile.features, queues |-> NewFile.queues,
                 oldWindows |-> NewFile.oldWindows, perGroup |-> NewFile.perGroup,
                 messages |-> NewFile.messages, keys |-> NewFile.keys,
                 security |-> NewFile.security]
  BY <1>1 DEF NewFile
<1>4. IsFile(NewFile)
  BY <1>1, <1>2, <1>3 DEF IsFile
<1>5. QED
  BY <1>1, <1>4 DEF SoundFile

(* create_base_schema.                                                     *)
LEMMA WithBaseFile ==
    ASSUME NEW f, IsFile(f), SoundFile(f)
    PROVE  /\ IsFile(WithBase(f)) /\ SoundFile(WithBase(f))
           /\ "base" \in WithBase(f).features
           /\ "base" \in f.features => WithBase(f) = f
           /\ WithBase(f).messages = f.messages
<1>1. CASE "base" \in f.features
  BY <1>1 DEF WithBase
<1>2. CASE "base" \notin f.features
  <2>1. WithBase(f) = [NewFile EXCEPT !.features = {"base", "wideCheck"}]
    BY <1>2 DEF WithBase, SoundFile
  <2>2. WithBase(f) = [features |-> {"base", "wideCheck"}, queues |-> {},
                       oldWindows |-> {}, perGroup |-> {}, messages |-> NoRows,
                       keys |-> {}, security |-> NoRows]
    BY <2>1 DEF NewFile
  <2>3. DOMAIN NoRows = {} /\ \A S : NoRows \in [{} -> S]
    BY DEF NoRows
  <2>4. f.messages = NoRows
    BY <1>2 DEF SoundFile, NewFile
  <2>5. QED
    BY <1>2, <2>2, <2>3, <2>4 DEF IsFile, SoundFile, Feature
<1>3. QED
  BY <1>1, <1>2

(* A message found by a key has its deduplication id.                      *)
LEMMA KeyOfType ==
    ASSUME NEW f, IsFile(f), NEW m
    PROVE  KeyOf(f, m) \in DedupId \cup {NoDedupId}
<1> DEFINE found == {k \in f.keys : k.queue = f.messages[m].queue /\ k.message = m}
<1>1. \A k \in found : k.dedup \in DedupId
  BY DEF IsFile, Key
<1>2. found # {} => (CHOOSE k \in found : TRUE) \in found
  OBVIOUS
<1>3. QED
  BY <1>1, <1>2 DEF KeyOf

\* What a part of the migration keeps of the messages.
SameMessages(f, g) ==
    /\ DOMAIN g.messages = DOMAIN f.messages
    /\ \A m \in DOMAIN f.messages :
        /\ Content(g, m) = Content(f, m)
        /\ f.messages[m].total # NoColumn => g.messages[m] = f.messages[m]

(* add_delivery_columns.                                                   *)
LEMMA AddColumnsFile ==
    ASSUME NEW f, IsFile(f), SoundFile(f), "base" \in f.features,
           DatabaseOpeningAssumption
    PROVE  /\ IsFile(AddColumns(f)) /\ SoundFile(AddColumns(f))
           /\ AddColumns(f).features = f.features \cup {"delivery", "dedupIds", "totals"}
           /\ AddColumns(f).queues = f.queues /\ AddColumns(f).perGroup = f.perGroup
           /\ AddColumns(f).oldWindows = f.oldWindows
           /\ AddColumns(f).keys = f.keys /\ AddColumns(f).security = f.security
           /\ SameMessages(f, AddColumns(f))
<1> DEFINE g == AddColumns(f)
           filled == [m \in DOMAIN f.messages |-> FilledIn(f, m)]
<1>1. f = [features |-> f.features, queues |-> f.queues, oldWindows |-> f.oldWindows,
           perGroup |-> f.perGroup, messages |-> f.messages, keys |-> f.keys,
           security |-> f.security]
  BY DEF IsFile
<1>2. g = [f EXCEPT !.features = f.features \cup {"delivery", "dedupIds", "totals"},
                    !.messages = filled]
  BY DEF AddColumns
<1>3. g = [features |-> f.features \cup {"delivery", "dedupIds", "totals"},
           queues |-> f.queues, oldWindows |-> f.oldWindows,
           perGroup |-> f.perGroup, messages |-> filled, keys |-> f.keys,
           security |-> f.security]
  <2> HIDE DEF filled, g
  <2>1. QED
    BY <1>1, <1>2
<1>4. DOMAIN filled = DOMAIN f.messages
  OBVIOUS
<1>5. ASSUME NEW m \in DOMAIN f.messages
      PROVE  /\ filled[m] \in Message
             /\ filled[m].total # NoColumn /\ filled[m].dedup # NoColumn
             /\ filled[m].received <= filled[m].total
             /\ filled[m].queue = f.messages[m].queue
             /\ filled[m].group = f.messages[m].group
             /\ filled[m].received = f.messages[m].received
             /\ f.messages[m].total # NoColumn => filled[m] = f.messages[m]
  <2>1. /\ f.messages[m] \in Message
        /\ f.messages[m].total = NoColumn <=> "totals" \notin f.features
        /\ f.messages[m].dedup = NoColumn <=> "dedupIds" \notin f.features
        /\ "totals" \in f.features =>
             "dedupIds" \in f.features /\ f.messages[m].received <= f.messages[m].total
    BY DEF IsFile, SoundFile
  <2>2. /\ NoColumn \notin Nat /\ NoColumn \notin DedupId \cup {NoDedupId}
    BY DEF DatabaseOpeningAssumption
  <2>3. KeyOf(f, m) \in DedupId \cup {NoDedupId}
    BY KeyOfType
  <2>4. f.messages[m].received \in Nat
    BY <2>1 DEF Message
  <2> DEFINE d == IF "dedupIds" \in f.features THEN f.messages[m].dedup ELSE KeyOf(f, m)
             n == IF "totals" \in f.features THEN f.messages[m].total
                  ELSE f.messages[m].received
  <2>5. filled[m] = [f.messages[m] EXCEPT !.dedup = d, !.total = n]
    BY DEF FilledIn
  <2>6. d \in DedupId \cup {NoDedupId} /\ n \in Nat /\ f.messages[m].received <= n
    BY <2>1, <2>3, <2>4 DEF Message
  <2>7. f.messages[m].total # NoColumn => d = f.messages[m].dedup /\ n = f.messages[m].total
    BY <2>1
  <2> HIDE DEF filled, d, n
  <2>8. /\ filled[m] \in Message /\ filled[m].total = n /\ filled[m].dedup = d
        /\ filled[m].queue = f.messages[m].queue
        /\ filled[m].group = f.messages[m].group
        /\ filled[m].received = f.messages[m].received
    BY <2>1, <2>5, <2>6 DEF Message
  <2>9. f.messages[m].total # NoColumn => filled[m] = f.messages[m]
    <3>1. \A row \in Message : [row EXCEPT !.dedup = row.dedup, !.total = row.total] = row
      BY ONLY TRUE DEF Message
    <3>2. QED
      BY ONLY <2>1, <2>5, <2>7, <3>1
  <2>10. QED
    BY <2>2, <2>6, <2>8, <2>9
<1>6. filled \in [DOMAIN filled -> Message]
  BY <1>4, <1>5
<1> HIDE DEF filled, g
<1>7. IsFile(g)
  BY <1>3, <1>4, <1>5, <1>6 DEF IsFile, Feature
<1>8. SoundFile(g)
  BY <1>3, <1>4, <1>5 DEF SoundFile
<1>9. SameMessages(f, g)
  BY <1>3, <1>4, <1>5 DEF SameMessages, Content
<1>10. QED
  BY <1>3, <1>7, <1>8, <1>9 DEF g

\* What the migrations keep of the keys: they may learn their group.
SameKeys(f, g) ==
    /\ {<<k.queue, k.dedup, k.message>> : k \in g.keys}
         = {<<k.queue, k.dedup, k.message>> : k \in f.keys}
    /\ \A k \in g.keys : k.message \in DOMAIN f.messages =>
            k.group = f.messages[k.message].group \/ k \in f.keys
    /\ \A k \in g.keys : k.queue \in {x.queue : x \in f.keys}

(* fifo::migrate.                                                          *)
LEMMA MigrateFifoFile ==
    ASSUME NEW f, IsFile(f), SoundFile(f), "base" \in f.features,
           DatabaseOpeningAssumption
    PROVE  /\ IsFile(MigrateFifo(f)) /\ SoundFile(MigrateFifo(f))
           /\ MigrateFifo(f).features = f.features \cup {"groups"}
           /\ MigrateFifo(f).queues = f.queues /\ MigrateFifo(f).perGroup = f.perGroup
           /\ MigrateFifo(f).oldWindows = {}
           /\ MigrateFifo(f).messages = f.messages
           /\ MigrateFifo(f).security = f.security
           /\ SameKeys(f, MigrateFifo(f))
           /\ "groups" \in f.features => MigrateFifo(f).keys = f.keys
           /\ \A h : Remembers(f, h) => Remembers(MigrateFifo(f), h)
<1> DEFINE g == MigrateFifo(f)
           renamed == IF "groups" \in f.features THEN f.keys ELSE MigratedKeys(f)
           Group1(k) == IF k.message \in DOMAIN f.messages
                        THEN f.messages[k.message].group ELSE UnknownGroup
<1>1. f = [features |-> f.features, queues |-> f.queues, oldWindows |-> f.oldWindows,
           perGroup |-> f.perGroup, messages |-> f.messages, keys |-> f.keys,
           security |-> f.security]
  BY DEF IsFile
<1>2. g = [f EXCEPT !.features = f.features \cup {"groups"}, !.keys = renamed,
                    !.oldWindows = {}]
  BY DEF MigrateFifo
<1>3. g = [features |-> f.features \cup {"groups"}, queues |-> f.queues,
           oldWindows |-> {}, perGroup |-> f.perGroup, messages |-> f.messages,
           keys |-> renamed, security |-> f.security]
  <2> HIDE DEF renamed, g
  <2>1. QED
    BY <1>1, <1>2
<1>4. ASSUME NEW k \in f.keys
      PROVE  /\ [k EXCEPT !.group = Group1(k)] \in Key
             /\ [k EXCEPT !.group = Group1(k)].group = Group1(k)
             /\ [k EXCEPT !.group = Group1(k)].queue = k.queue
             /\ [k EXCEPT !.group = Group1(k)].dedup = k.dedup
             /\ [k EXCEPT !.group = Group1(k)].message = k.message
             /\ Group1(k) \in Group \cup {UnknownGroup} /\ Group1(k) # NoColumn
  <2>1. k \in Key
    BY DEF IsFile
  <2>2. k.message \in DOMAIN f.messages => f.messages[k.message].group \in Group
    BY DEF IsFile, Message
  <2>3. Group1(k) \in Group \cup {UnknownGroup} /\ Group1(k) # NoColumn
    BY <2>2 DEF DatabaseOpeningAssumption
  <2> HIDE DEF Group1
  <2>4. QED
    BY <2>1, <2>3 DEF Key
<1>5. "groups" \notin f.features =>
        /\ \A k \in f.keys : [k EXCEPT !.group = Group1(k)] \in renamed
        /\ \A x \in renamed : \E k \in f.keys : x = [k EXCEPT !.group = Group1(k)]
  BY DEF MigratedKeys
<1>6. "groups" \in f.features => renamed = f.keys
  OBVIOUS
<1> HIDE DEF renamed, g
<1>7. ASSUME NEW x \in renamed
      PROVE  /\ x \in Key /\ x.group # NoColumn
             /\ \E k \in f.keys : /\ k.queue = x.queue /\ k.dedup = x.dedup
                                 /\ k.message = x.message
             /\ x.message \in DOMAIN f.messages =>
                    x.group = f.messages[x.message].group \/ x \in f.keys
  <2>1. CASE "groups" \in f.features
    BY <1>6, <2>1 DEF IsFile
  <2>2. CASE "groups" \notin f.features
    <3>1. PICK k \in f.keys : x = [k EXCEPT !.group = Group1(k)]
      BY <1>5, <2>2
    <3>2. /\ x \in Key /\ x.group = Group1(k) /\ x.queue = k.queue /\ x.dedup = k.dedup
          /\ x.message = k.message /\ Group1(k) # NoColumn
      BY <1>4, <3>1
    <3>3. QED
      BY <3>2
  <2>3. QED
    BY <2>1, <2>2
<1>8. ASSUME NEW k \in f.keys
      PROVE  \E x \in renamed :
                /\ x.queue = k.queue /\ x.dedup = k.dedup /\ x.message = k.message
                /\ x.group = IF "groups" \in f.features THEN k.group ELSE Group1(k)
  <2>1. CASE "groups" \in f.features
    BY <1>6, <2>1
  <2>2. CASE "groups" \notin f.features
    <3>1. [k EXCEPT !.group = Group1(k)] \in renamed
      BY <1>5, <2>2
    <3>2. /\ [k EXCEPT !.group = Group1(k)].group = Group1(k)
          /\ [k EXCEPT !.group = Group1(k)].queue = k.queue
          /\ [k EXCEPT !.group = Group1(k)].dedup = k.dedup
          /\ [k EXCEPT !.group = Group1(k)].message = k.message
      BY <1>4
    <3> HIDE DEF Group1
    <3>3. QED
      BY <2>2, <3>1, <3>2
  <2>3. QED
    BY <2>1, <2>2
<1>9. IsFile(g)
  BY <1>3, <1>7 DEF IsFile, Feature
<1>10. SoundFile(g)
  BY <1>3 DEF SoundFile
<1>11. SameKeys(f, g)
  <2>1. g.keys = renamed /\ g.messages = f.messages
    BY <1>3
  <2>2. QED
    BY <1>7, <1>8, <2>1 DEF SameKeys
<1>12. ASSUME NEW h, Remembers(f, h)
       PROVE  Remembers(g, h)
  <2>1. PICK k \in f.keys :
          /\ k.queue = h.queue /\ k.dedup = h.dedup
          /\ "groups" \in f.features => k.group \in {h.group, UnknownGroup}
          /\ "groups" \notin f.features /\ k.message \in DOMAIN f.messages
             => f.messages[k.message].group = h.group
    BY <1>12 DEF Remembers
  <2>2. PICK x \in renamed :
          /\ x.queue = k.queue /\ x.dedup = k.dedup
          /\ x.group = IF "groups" \in f.features THEN k.group ELSE Group1(k)
    BY <1>8
  <2>3. x.group \in {h.group, UnknownGroup}
    BY <2>1, <2>2
  <2>4. g.keys = renamed /\ "groups" \in g.features
    BY <1>3
  <2>5. QED
    BY <2>1, <2>2, <2>3, <2>4 DEF Remembers
<1>13. /\ g.features = f.features \cup {"groups"} /\ g.queues = f.queues
       /\ g.perGroup = f.perGroup /\ g.oldWindows = {} /\ g.messages = f.messages
       /\ g.security = f.security
       /\ "groups" \in f.features => g.keys = f.keys
  BY <1>3, <1>6
<1> HIDE DEF Group1
<1>14. QED
  BY <1>9, <1>10, <1>11, <1>12, <1>13 DEF g

\* management::migrate on a connection that does not enforce foreign keys.
Managed(f) == MigrateManagement(f, FALSE)

(* management::migrate deletes nothing then.                               *)
LEMMA ManagedFile ==
    ASSUME NEW f, IsFile(f), SoundFile(f), "base" \in f.features
    PROVE  /\ IsFile(Managed(f)) /\ SoundFile(Managed(f))
           /\ Managed(f).features = f.features \cup {"wideCheck", "stamps"}
           /\ Managed(f).queues = f.queues /\ Managed(f).perGroup = f.perGroup
           /\ Managed(f).oldWindows = f.oldWindows
           /\ Managed(f).messages = f.messages
           /\ Managed(f).keys = f.keys /\ Managed(f).security = f.security
<1>1. f = [features |-> f.features, queues |-> f.queues, oldWindows |-> f.oldWindows,
           perGroup |-> f.perGroup, messages |-> f.messages, keys |-> f.keys,
           security |-> f.security]
  BY DEF IsFile
<1>2. Managed(f) = [f EXCEPT !.features = f.features \cup {"wideCheck", "stamps"}]
  BY DEF Managed, MigrateManagement
<1>3. Managed(f) =
          [features |-> f.features \cup {"wideCheck", "stamps"}, queues |-> f.queues,
           oldWindows |-> f.oldWindows, perGroup |-> f.perGroup,
           messages |-> f.messages, keys |-> f.keys, security |-> f.security]
  BY <1>1, <1>2
<1>4. IsFile(Managed(f))
  BY <1>3 DEF IsFile, Feature
<1>5. SoundFile(Managed(f))
  BY <1>3 DEF SoundFile
<1>6. QED
  BY <1>3, <1>4, <1>5

(* security_sqlite::migrate.                                               *)
LEMMA MigrateSecurityFile ==
    ASSUME NEW f, IsFile(f), SoundFile(f), "base" \in f.features
    PROVE  LET g == MigrateSecurity(f)
           IN  /\ IsFile(g) /\ SoundFile(g)
               /\ g.features = f.features \cup {"security"}
               /\ g.queues = f.queues /\ g.perGroup = f.perGroup
               /\ g.oldWindows = f.oldWindows /\ g.messages = f.messages
               /\ g.keys = f.keys
               /\ DOMAIN g.security = DOMAIN f.security \cup f.queues
               /\ \A q \in DOMAIN f.security : g.security[q] = f.security[q]
<1> DEFINE g == MigrateSecurity(f)
           filled == [q \in DOMAIN f.security \cup f.queues |->
                        IF q \in DOMAIN f.security THEN f.security[q] ELSE NoPolicy]
<1>1. f = [features |-> f.features, queues |-> f.queues, oldWindows |-> f.oldWindows,
           perGroup |-> f.perGroup, messages |-> f.messages, keys |-> f.keys,
           security |-> f.security]
  BY DEF IsFile
<1>2. g = [f EXCEPT !.features = f.features \cup {"security"}, !.security = filled]
  BY DEF MigrateSecurity
<1>3. g = [features |-> f.features \cup {"security"}, queues |-> f.queues,
           oldWindows |-> f.oldWindows, perGroup |-> f.perGroup,
           messages |-> f.messages, keys |-> f.keys, security |-> filled]
  <2> HIDE DEF filled, g
  <2>1. QED
    BY <1>1, <1>2
<1>4. /\ DOMAIN filled = DOMAIN f.security \cup f.queues
      /\ \A q \in DOMAIN f.security : filled[q] = f.security[q]
      /\ filled \in [DOMAIN filled -> Policy \cup {NoPolicy}]
      /\ DOMAIN filled \subseteq Queue
  BY DEF IsFile
<1> HIDE DEF filled, g
<1>5. IsFile(g)
  BY <1>3, <1>4 DEF IsFile, Feature
<1>6. SoundFile(g)
  BY <1>3 DEF SoundFile
<1>7. QED
  BY <1>3, <1>4, <1>5, <1>6 DEF g

\* What a migration keeps of a file.
KeptBy(f, g) ==
    /\ g.queues = f.queues /\ g.perGroup = f.perGroup
    /\ SameMessages(f, g) /\ SameKeys(f, g)
    /\ \A q \in DOMAIN f.security : g.security[q] = f.security[q]

(* The four parts one after the other (migrate_existing_schema).           *)
LEMMA UpgradedFile ==
    ASSUME NEW f, IsFile(f), SoundFile(f), "base" \in f.features,
           DatabaseOpeningAssumption
    PROVE  /\ IsFile(AddColumns(f)) /\ IsFile(MigrateFifo(AddColumns(f)))
           /\ IsFile(Managed(MigrateFifo(AddColumns(f))))
           /\ IsFile(Upgraded(f)) /\ SoundFile(Upgraded(f))
           /\ "base" \in Upgraded(f).features
           /\ KeptBy(f, Upgraded(f))
           /\ \A h : Remembers(f, h) => Remembers(Upgraded(f), h)
           /\ ReferencesHold(Upgraded(f)) => Migrated(Upgraded(f))
           /\ Migrated(f) => Upgraded(f) = f
<1> DEFINE f1 == AddColumns(f)
           f2 == MigrateFifo(f1)
           f3 == Managed(f2)
           f4 == MigrateSecurity(f3)
<1>1. Upgraded(f) = f4
  BY DEF Upgraded, Managed
<1>2. /\ IsFile(f1) /\ SoundFile(f1)
      /\ f1.features = f.features \cup {"delivery", "dedupIds", "totals"}
      /\ f1.queues = f.queues /\ f1.perGroup = f.perGroup
      /\ f1.oldWindows = f.oldWindows
      /\ f1.keys = f.keys /\ f1.security = f.security
      /\ SameMessages(f, f1)
  BY AddColumnsFile
<1> HIDE DEF f1
<1>3. /\ IsFile(f2) /\ SoundFile(f2)
      /\ f2.features = f1.features \cup {"groups"}
      /\ f2.queues = f1.queues /\ f2.perGroup = f1.perGroup
      /\ f2.oldWindows = {}
      /\ f2.messages = f1.messages /\ f2.security = f1.security
      /\ SameKeys(f1, f2)
      /\ "groups" \in f1.features => f2.keys = f1.keys
      /\ \A h : Remembers(f1, h) => Remembers(f2, h)
  BY <1>2, MigrateFifoFile
<1> HIDE DEF f2
<1>4. /\ IsFile(f3) /\ SoundFile(f3)
      /\ f3.features = f2.features \cup {"wideCheck", "stamps"}
      /\ f3.queues = f2.queues /\ f3.perGroup = f2.perGroup
      /\ f3.oldWindows = f2.oldWindows /\ f3.messages = f2.messages
      /\ f3.keys = f2.keys /\ f3.security = f2.security
  <2>1. "base" \in f2.features
    BY <1>2, <1>3
  <2>2. QED
    BY <1>3, <2>1, ManagedFile
<1> HIDE DEF f3
<1>5. /\ IsFile(f4) /\ SoundFile(f4)
      /\ f4.features = f3.features \cup {"security"}
      /\ f4.queues = f3.queues /\ f4.perGroup = f3.perGroup
      /\ f4.oldWindows = f3.oldWindows /\ f4.messages = f3.messages
      /\ f4.keys = f3.keys
      /\ DOMAIN f4.security = DOMAIN f3.security \cup f3.queues
      /\ \A q \in DOMAIN f3.security : f4.security[q] = f3.security[q]
  <2>1. "base" \in f3.features
    BY <1>2, <1>3, <1>4
  <2>2. QED
    BY <1>4, <2>1, MigrateSecurityFile
<1> HIDE DEF f4
<1>6. f4.features = Feature
  <2>1. "base" \in f1.features /\ f.features \subseteq Feature
    BY <1>2 DEF IsFile
  <2>2. f4.features = f.features \cup {"delivery", "dedupIds", "totals"} \cup {"groups"}
                       \cup {"wideCheck", "stamps"} \cup {"security"}
    BY ONLY <1>2, <1>3, <1>4, <1>5
  <2>3. "base" \in f.features
    BY ONLY <1>2, <2>1
  <2>4. QED
    BY ONLY <2>1, <2>2, <2>3 DEF Feature
<1>7. KeptBy(f, f4)
  <2>1. SameMessages(f, f4)
    BY <1>2, <1>3, <1>4, <1>5 DEF SameMessages, Content
  <2>2. SameKeys(f, f4)
    <3>1. /\ DOMAIN f1.messages = DOMAIN f.messages
          /\ \A m \in DOMAIN f.messages : f1.messages[m].group = f.messages[m].group
      BY <1>2 DEF SameMessages, Content
    <3>2. QED
      BY <1>2, <1>3, <1>4, <1>5, <3>1 DEF SameKeys
  <2>3. QED
    BY <1>2, <1>3, <1>4, <1>5, <2>1, <2>2 DEF KeptBy
<1>8. ASSUME NEW h, Remembers(f, h)
      PROVE  Remembers(f4, h)
  <2>1. Remembers(f1, h)
    <3>1. /\ "groups" \in f1.features <=> "groups" \in f.features
          /\ DOMAIN f1.messages = DOMAIN f.messages
          /\ \A m \in DOMAIN f.messages : f1.messages[m].group = f.messages[m].group
      BY <1>2 DEF SameMessages, Content
    <3>2. QED
      BY <1>2, <1>8, <3>1 DEF Remembers
  <2>2. Remembers(f2, h)
    BY <1>3, <2>1
  <2>3. QED
    BY <1>3, <1>4, <1>5, <1>6, <2>2 DEF Remembers, Feature
<1>9. ReferencesHold(f4) => Migrated(f4)
  BY <1>3, <1>4, <1>5, <1>6 DEF ReferencesHold, Migrated, SoundFile, Feature
<1>10. ASSUME Migrated(f)
       PROVE  f4 = f
  <2>1. f1.messages = f.messages
    <3>1. \A m \in DOMAIN f.messages : f.messages[m].total # NoColumn
      BY <1>10 DEF IsFile, Migrated, Feature
    <3>2. /\ f1.messages \in [DOMAIN f1.messages -> Message]
          /\ f.messages \in [DOMAIN f.messages -> Message]
      BY <1>2 DEF IsFile
    <3>3. QED
      BY <1>2, <3>1, <3>2 DEF SameMessages
  <2>2. f4.keys = f.keys
    BY <1>2, <1>3, <1>4, <1>5, <1>10 DEF Migrated, Feature
  <2>3. f4.security = f.security
    <3>1. /\ f4.security \in [DOMAIN f4.security -> Policy \cup {NoPolicy}]
          /\ f.security \in [DOMAIN f.security -> Policy \cup {NoPolicy}]
      BY <1>5 DEF IsFile
    <3>2. DOMAIN f4.security = DOMAIN f.security
      BY <1>2, <1>3, <1>4, <1>5, <1>10 DEF Migrated
    <3>3. QED
      BY <1>2, <1>3, <1>4, <1>5, <3>1, <3>2
  <2>4. f4.features = f.features /\ f4.oldWindows = f.oldWindows
    BY <1>3, <1>4, <1>5, <1>6, <1>10 DEF Migrated
  <2>5. f4.queues = f.queues /\ f4.perGroup = f.perGroup /\ f4.messages = f.messages
    BY ONLY <1>2, <1>3, <1>4, <1>5, <2>1
  <2>6. /\ f = [features |-> f.features, queues |-> f.queues,
                oldWindows |-> f.oldWindows, perGroup |-> f.perGroup,
                messages |-> f.messages, keys |-> f.keys, security |-> f.security]
        /\ f4 = [features |-> f4.features, queues |-> f4.queues,
                 oldWindows |-> f4.oldWindows, perGroup |-> f4.perGroup,
                 messages |-> f4.messages, keys |-> f4.keys, security |-> f4.security]
    BY <1>5 DEF IsFile
  <2>7. QED
    BY ONLY <2>2, <2>3, <2>4, <2>5, <2>6
<1>11. QED
  BY <1>1, <1>2, <1>3, <1>4, <1>5, <1>6, <1>7, <1>8, <1>9, <1>10
     DEF f1, f2, f3, f4, Feature
-----------------------------------------------------------------------------
(* Processes that open the file: OpeningInv is inductive.                  *)

Labels == {"closed", "connected", "waiting", "columns", "fifo", "management",
           "security", "check", "committed", "open", "failed"}

(* A step of one process that leaves the file alone.                       *)
LEMMA OneProcess ==
    ASSUME OpeningInv, NEW p \in Process, NEW label \in Labels, Goto(p, label),
           UNCHANGED <<file, history>>, starts' \in Nat,
           foreignKeys' \in [Process -> BOOLEAN],
           \A x \in Process \ {p} : foreignKeys'[x] = foreignKeys[x],
           IsFile(draft'), lock' \in Process \cup {NoProcess},
           \A x \in Process \ {p} : (lock' = x <=> lock = x) /\ (lock = x => draft' = draft),
           ProcessInv(p)'
    PROVE  OpeningInv'
<1>1. /\ pc' = [pc EXCEPT ![p] = label] /\ pc \in [Process -> Labels]
      /\ foreignKeys \in [Process -> BOOLEAN]
  BY DEF OpeningInv, OpeningTypeOK, Goto, Labels
<1>2. ASSUME NEW x \in Process \ {p}
      PROVE  ProcessInv(x)'
  <2>1. pc'[x] = pc[x] /\ foreignKeys'[x] = foreignKeys[x] /\ ProcessInv(x)
    BY <1>1 DEF OpeningInv
  <2>2. (lock' = x <=> lock = x) /\ (lock = x => draft' = draft) /\ file' = file
    OBVIOUS
  <2>3. pc[x] \in Stages => draft' = draft
    BY <2>1, <2>2 DEF ProcessInv
  <2>4. QED
    BY <2>1, <2>2, <2>3 DEF ProcessInv, Stages, Migrated, ReferencesHold
<1>3. OpeningTypeOK'
  BY <1>1 DEF OpeningInv, OpeningTypeOK, Labels
<1>4. \A x \in Process : ProcessInv(x)'
  BY <1>2
<1>5. QED
  BY <1>3, <1>4 DEF OpeningInv

(* What a process inside its migration works on.                           *)
LEMMA InStages ==
    ASSUME OpeningInv, NEW p \in Process
    PROVE  /\ pc \in [Process -> Labels] /\ foreignKeys \in [Process -> BOOLEAN]
           /\ ProcessInv(p) /\ starts \in Nat /\ lock \in Process \cup {NoProcess}
           /\ IsFile(file) /\ SoundFile(file) /\ IsFile(draft)
BY DEF OpeningInv, OpeningTypeOK, Labels

(* Before the transaction (migrate_existing_schema).                       *)
LEMMA BeforeTransaction ==
    ASSUME OpeningInv, NEW p \in Process, SwitchOff(p) \/ GiveUp(p)
    PROVE  OpeningInv'
<1>1. /\ pc \in [Process -> Labels] /\ foreignKeys \in [Process -> BOOLEAN]
      /\ ProcessInv(p) /\ starts \in Nat /\ lock \in Process \cup {NoProcess}
      /\ IsFile(draft)
  BY InStages
<1>2. ASSUME NEW label \in {"waiting", "failed"}, Goto(p, label), pc[p] # "closed",
             pc[p] \notin Stages, UNCHANGED <<file, history, lock, draft, starts>>,
             foreignKeys' = [foreignKeys EXCEPT ![p] = FALSE]
      PROVE  OpeningInv'
  <2>1. pc'[p] = label /\ foreignKeys'[p] = FALSE /\ label \in Labels
    BY <1>1, <1>2 DEF Goto, Labels
  <2>2. ProcessInv(p)'
    BY <1>1, <1>2, <2>1 DEF ProcessInv, Stages
  <2>3. /\ foreignKeys' \in [Process -> BOOLEAN]
        /\ \A x \in Process \ {p} : foreignKeys'[x] = foreignKeys[x]
    BY <1>1, <1>2
  <2>4. QED
    BY <1>1, <1>2, <2>1, <2>2, <2>3, OneProcess
<1>3. CASE SwitchOff(p)
  BY <1>2, <1>3 DEF SwitchOff, Stages
<1>4. CASE GiveUp(p)
  BY <1>2, <1>4 DEF GiveUp, Stages
<1>5. QED
  BY <1>3, <1>4

(* BEGIN IMMEDIATE waits until nobody holds the lock.                      *)
LEMMA BeginKeeps ==
    ASSUME OpeningInv, DatabaseOpeningAssumption, NEW p \in Process, Begin(p)
    PROVE  OpeningInv'
<1>1. /\ pc \in [Process -> Labels] /\ foreignKeys \in [Process -> BOOLEAN]
      /\ ProcessInv(p) /\ starts \in Nat /\ IsFile(file)
  BY InStages
<1>2. /\ pc[p] = "waiting" /\ lock = NoProcess /\ lock' = p /\ draft' = file
      /\ Goto(p, "columns") /\ UNCHANGED <<file, history, foreignKeys, starts>>
  BY DEF Begin
<1>3. pc'[p] = "columns" /\ "columns" \in Labels
  BY <1>1, <1>2 DEF Goto, Labels
<1>4. ~foreignKeys[p]
  BY <1>1, <1>2 DEF ProcessInv
<1>5. ProcessInv(p)'
  BY <1>1, <1>2, <1>3, <1>4 DEF ProcessInv, Stages
<1>6. /\ foreignKeys' \in [Process -> BOOLEAN]
        /\ \A x \in Process \ {p} : foreignKeys'[x] = foreignKeys[x]
  BY <1>1, <1>2, <1>4
<1>7. \A x \in Process \ {p} : (lock' = x <=> lock = x) /\ (lock = x => draft' = draft)
  BY <1>2 DEF DatabaseOpeningAssumption
<1>8. QED
  BY <1>1, <1>2, <1>3, <1>5, <1>6, <1>7, OneProcess

(* The statements of the transaction change the draft only.                *)
LEMMA ChangeKeeps ==
    ASSUME OpeningInv, DatabaseOpeningAssumption, NEW p \in Process,
           Columns(p) \/ FifoTables(p) \/ Management(p) \/ Security(p)
    PROVE  OpeningInv'
<1>1. /\ pc \in [Process -> Labels] /\ foreignKeys \in [Process -> BOOLEAN]
      /\ ProcessInv(p) /\ starts \in Nat /\ IsFile(file) /\ SoundFile(file)
      /\ lock \in Process \cup {NoProcess}
  BY InStages
<1>2. ASSUME NEW here \in Stages, NEW there \in Stages, NEW changed, pc[p] = here,
             Change(p, here, changed, there),
             /\ there = "fifo" => changed = AddColumns(file)
             /\ there = "management" => changed = MigrateFifo(AddColumns(file))
             /\ there = "security" => changed = Managed(MigrateFifo(AddColumns(file)))
             /\ there = "check" => changed = Upgraded(file)
             /\ there # "columns"
      PROVE  OpeningInv'
  <2>1. /\ draft' = changed /\ Goto(p, there)
        /\ UNCHANGED <<file, history, lock, foreignKeys, starts>>
    BY <1>2 DEF Change
  <2>2. pc'[p] = there /\ there \in Labels /\ pc[p] \in Stages
    BY <1>1, <1>2, <2>1 DEF Goto, Labels, Stages
  <2>3. lock = p /\ ~foreignKeys[p] /\ "base" \in file.features
    BY <1>1, <2>2 DEF ProcessInv, Stages
  <2>4. ProcessInv(p)'
    <3>1. there = "security" =>
            changed = MigrateManagement(MigrateFifo(AddColumns(file)), FALSE)
      BY <1>2 DEF Managed
    <3>2. QED
      BY <1>1, <1>2, <2>1, <2>2, <2>3, <3>1 DEF ProcessInv, Stages
  <2>5. /\ foreignKeys' \in [Process -> BOOLEAN]
        /\ \A x \in Process \ {p} : foreignKeys'[x] = foreignKeys[x]
    BY <1>1, <2>1, <2>3 DEF Stages
  <2>6. IsFile(changed)
    BY <1>1, <1>2, <2>3, UpgradedFile DEF Stages
  <2>7. \A x \in Process \ {p} : (lock' = x <=> lock = x) /\ (lock = x => draft' = draft)
    BY <2>1, <2>3
  <2>8. QED
    BY <1>1, <2>1, <2>2, <2>4, <2>5, <2>6, <2>7, OneProcess
<1>3. CASE Columns(p)
  BY <1>1, <1>2, <1>3 DEF Columns, Change, ProcessInv, Stages
<1>4. CASE FifoTables(p)
  BY <1>1, <1>2, <1>4 DEF FifoTables, Change, ProcessInv, Stages
<1>5. CASE Management(p)
  <2>1. pc[p] = "management" /\ ~foreignKeys[p]
    BY <1>1, <1>5 DEF Management, Change, ProcessInv
  <2>2. MigrateManagement(draft, foreignKeys[p]) = Managed(draft)
    BY <2>1 DEF MigrateManagement, Managed
  <2>3. Change(p, "management", Managed(draft), "security")
    BY <1>5, <2>2 DEF Management
  <2>4. draft = MigrateFifo(AddColumns(file))
    BY <1>1, <2>1 DEF ProcessInv
  <2>5. QED
    BY <1>2, <2>1, <2>3, <2>4 DEF Stages
<1>6. CASE Security(p)
  <2>1. pc[p] = "security" /\ Change(p, "security", MigrateSecurity(draft), "check")
    BY <1>6 DEF Security, Change
  <2>2. draft = Managed(MigrateFifo(AddColumns(file)))
    BY <1>1, <2>1 DEF ProcessInv, Managed
  <2>3. MigrateSecurity(draft) = Upgraded(file)
    BY <2>2 DEF Upgraded, Managed
  <2>4. QED
    BY <1>2, <2>1, <2>3 DEF Stages
<1>7. QED
  BY <1>3, <1>4, <1>5, <1>6

(* A process that fails or dies leaves the file as it found it.            *)
LEMMA ReleaseKeeps ==
    ASSUME OpeningInv, DatabaseOpeningAssumption, NEW p \in Process,
           CheckFails(p) \/ Die(p)
    PROVE  OpeningInv'
<1>1. /\ pc \in [Process -> Labels] /\ foreignKeys \in [Process -> BOOLEAN]
      /\ ProcessInv(p) /\ starts \in Nat /\ IsFile(draft)
      /\ lock \in Process \cup {NoProcess}
  BY InStages
<1>2. ASSUME NEW label \in {"closed", "failed"}, Goto(p, label), Released(p),
             pc[p] # "closed", UNCHANGED <<file, history, starts>>,
             foreignKeys' = [foreignKeys EXCEPT ![p] = FALSE]
      PROVE  OpeningInv'
  <2>1. pc'[p] = label /\ foreignKeys'[p] = FALSE /\ label \in Labels
    BY <1>1, <1>2 DEF Goto, Labels
  <2>2. /\ IF lock = p THEN lock' = NoProcess /\ draft' = NewFile
                       ELSE lock' = lock /\ draft' = draft
        /\ NoProcess \notin Process
    BY <1>2 DEF Released, DatabaseOpeningAssumption
  <2>3. IsFile(draft') /\ lock' \in Process \cup {NoProcess} /\ lock' # p
    BY <1>1, <2>2, NewFileSound
  <2>4. \A x \in Process \ {p} : (lock' = x <=> lock = x) /\ (lock = x => draft' = draft)
    BY <2>2
  <2>5. ProcessInv(p)'
    BY <1>1, <1>2, <2>1, <2>3 DEF ProcessInv, Stages
  <2>6. /\ foreignKeys' \in [Process -> BOOLEAN]
        /\ \A x \in Process \ {p} : foreignKeys'[x] = foreignKeys[x]
    BY <1>1, <1>2
  <2>7. QED
    BY <1>1, <1>2, <2>1, <2>3, <2>4, <2>5, <2>6, OneProcess
<1>3. CASE CheckFails(p)
  <2>1. /\ pc[p] = "check" /\ Released(p) /\ Goto(p, "failed")
        /\ UNCHANGED <<file, history, foreignKeys, starts>>
    BY <1>3 DEF CheckFails
  <2>2. ~foreignKeys[p]
    BY <1>1, <2>1 DEF ProcessInv
  <2>3. foreignKeys' = [foreignKeys EXCEPT ![p] = FALSE]
    BY <1>1, <2>1, <2>2
  <2>4. QED
    BY <1>2, <2>1, <2>3
<1>4. CASE Die(p)
  BY <1>2, <1>4 DEF Die
<1>5. QED
  BY <1>3, <1>4

(* The connection enforces foreign keys again.                             *)
LEMMA SwitchOnKeeps ==
    ASSUME OpeningInv, NEW p \in Process, SwitchOn(p)
    PROVE  OpeningInv'
<1>1. /\ pc \in [Process -> Labels] /\ foreignKeys \in [Process -> BOOLEAN]
      /\ ProcessInv(p) /\ starts \in Nat /\ IsFile(draft)
      /\ lock \in Process \cup {NoProcess}
  BY InStages
<1>2. /\ pc[p] = "committed" /\ Goto(p, "open")
      /\ foreignKeys' = [foreignKeys EXCEPT ![p] = TRUE]
      /\ UNCHANGED <<file, history, lock, draft, starts>>
  BY DEF SwitchOn
<1>3. pc'[p] = "open" /\ foreignKeys'[p] = TRUE /\ "open" \in Labels
  BY <1>1, <1>2 DEF Goto, Labels
<1>4. ProcessInv(p)'
  BY <1>1, <1>2, <1>3 DEF ProcessInv, Stages, Migrated, ReferencesHold
<1>5. /\ foreignKeys' \in [Process -> BOOLEAN]
        /\ \A x \in Process \ {p} : foreignKeys'[x] = foreignKeys[x]
  BY <1>1, <1>2
<1>6. QED
  BY <1>1, <1>2, <1>3, <1>4, <1>5, OneProcess

(* Creating the tables: nobody is beyond `closed` before there are any.    *)
LEMMA ConnectKeeps ==
    ASSUME OpeningInv, DatabaseOpeningAssumption, NEW p \in Process, Connect(p)
    PROVE  OpeningInv'
<1>1. /\ pc \in [Process -> Labels] /\ foreignKeys \in [Process -> BOOLEAN]
      /\ ProcessInv(p) /\ starts \in Nat /\ IsFile(draft)
      /\ lock \in Process \cup {NoProcess} /\ IsFile(file) /\ SoundFile(file)
  BY InStages
<1>2. /\ pc[p] = "closed" /\ Goto(p, "connected") /\ file' = WithBase(file)
      /\ foreignKeys' = [foreignKeys EXCEPT ![p] = TRUE]
      /\ starts' = starts + 1 /\ UNCHANGED <<history, lock, draft>>
  BY DEF Connect
<1>3. pc'[p] = "connected" /\ foreignKeys'[p] = TRUE /\ "connected" \in Labels
  BY <1>1, <1>2 DEF Goto, Labels
<1>4. /\ foreignKeys' \in [Process -> BOOLEAN]
      /\ \A x \in Process \ {p} : foreignKeys'[x] = foreignKeys[x]
  BY <1>1, <1>2
<1>5. /\ IsFile(WithBase(file)) /\ SoundFile(WithBase(file))
      /\ "base" \in WithBase(file).features
      /\ "base" \in file.features => WithBase(file) = file
  BY <1>1, WithBaseFile
<1>6. ProcessInv(p)'
  BY <1>1, <1>2, <1>3, <1>5 DEF ProcessInv, Stages
<1>7. CASE "base" \in file.features
  <2>1. UNCHANGED <<file, history>> /\ IsFile(draft')
    BY <1>1, <1>2, <1>5, <1>7
  <2>2. \A x \in Process \ {p} : (lock' = x <=> lock = x) /\ (lock = x => draft' = draft)
    BY <1>2
  <2>3. starts' \in Nat /\ lock' \in Process \cup {NoProcess}
    BY <1>1, <1>2
  <2>4. QED
    BY <1>2, <1>3, <1>4, <1>6, <2>1, <2>2, <2>3, OneProcess
<1>8. CASE "base" \notin file.features
  <2>1. ASSUME NEW x \in Process \ {p}
        PROVE  ProcessInv(x)'
    <3>1. ProcessInv(x) /\ pc[x] = "closed"
      BY <1>8 DEF OpeningInv, ProcessInv
    <3>2. pc'[x] = "closed" /\ foreignKeys'[x] = foreignKeys[x] /\ lock' = lock
      BY <1>1, <1>2, <1>4, <3>1 DEF Goto
    <3>3. QED
      BY <3>1, <3>2 DEF ProcessInv, Stages
  <2>2. \A x \in Process : ProcessInv(x)'
    BY <1>6, <2>1
  <2>3. history' = {}
    BY <1>2, <1>8 DEF OpeningInv
  <2>4. pc' \in [Process -> Labels]
    BY <1>1, <1>2 DEF Goto, Labels
  <2>5. OpeningTypeOK'
    BY <1>1, <1>2, <1>4, <1>5, <2>3, <2>4 DEF OpeningTypeOK, Labels
  <2>6. QED
    BY <1>2, <1>5, <2>2, <2>3, <2>5 DEF OpeningInv
<1>9. QED
  BY <1>7, <1>8

(* A commit turns the file into what the migration makes of it.            *)
LEMMA CommitKeeps ==
    ASSUME OpeningInv, DatabaseOpeningAssumption, NEW p \in Process, Commit(p)
    PROVE  OpeningInv' /\ file' = Upgraded(file) /\ "base" \in file.features
<1>1. /\ pc \in [Process -> Labels] /\ foreignKeys \in [Process -> BOOLEAN]
      /\ ProcessInv(p) /\ starts \in Nat
      /\ IsFile(file) /\ SoundFile(file)
  BY InStages
<1>2. /\ pc[p] = "check" /\ ReferencesHold(draft) /\ file' = draft
      /\ lock' = NoProcess /\ draft' = NewFile /\ Goto(p, "committed")
      /\ UNCHANGED <<history, foreignKeys, starts>>
  BY DEF Commit
<1>3. /\ draft = Upgraded(file) /\ lock = p /\ "base" \in file.features
      /\ ~foreignKeys[p]
  BY <1>1, <1>2 DEF ProcessInv, Stages
<1>4. /\ IsFile(file') /\ SoundFile(file') /\ "base" \in file'.features
      /\ \A h : Remembers(file, h) => Remembers(file', h)
      /\ Migrated(file') /\ ReferencesHold(file')
  BY <1>1, <1>2, <1>3, UpgradedFile
<1>5. pc'[p] = "committed" /\ pc' \in [Process -> Labels]
      /\ \A x \in Process \ {p} : pc'[x] = pc[x]
  BY <1>1, <1>2 DEF Goto, Labels
<1>6. ASSUME NEW x \in Process
      PROVE  ProcessInv(x)'
  <2>1. lock' # x
    BY <1>2 DEF DatabaseOpeningAssumption
  <2>2. CASE x = p
    BY <1>2, <1>3, <1>4, <1>5, <2>1, <2>2 DEF ProcessInv, Stages
  <2>3. CASE x # p
    <3>1. ProcessInv(x) /\ lock # x /\ pc'[x] = pc[x] /\ foreignKeys'[x] = foreignKeys[x]
      BY <1>2, <1>3, <1>5, <2>3 DEF OpeningInv
    <3>2. pc[x] \notin Stages
      BY <3>1 DEF ProcessInv
    <3>3. QED
      BY <1>4, <2>1, <3>1, <3>2 DEF ProcessInv, Stages
  <2>4. QED
    BY <2>2, <2>3
<1>7. OpeningTypeOK'
  BY <1>1, <1>2, <1>4, <1>5, NewFileSound DEF OpeningInv, OpeningTypeOK, Labels
<1>8. \A h \in history' : Remembers(file', h)
  BY <1>2, <1>4 DEF OpeningInv
<1>9. QED
  BY <1>2, <1>3, <1>4, <1>6, <1>7, <1>8 DEF OpeningInv
-----------------------------------------------------------------------------
(* Work with an open file keeps it whole.                                  *)

\* A file with this release's schema whose references hold, part by part.
Whole(f) ==
    /\ f = [features |-> Feature, queues |-> f.queues, oldWindows |-> {},
            perGroup |-> f.perGroup, messages |-> f.messages, keys |-> f.keys,
            security |-> f.security]
    /\ f.queues \subseteq Queue /\ f.perGroup \subseteq Queue
    /\ DOMAIN f.messages \subseteq Nat
    /\ \A m \in DOMAIN f.messages :
        /\ f.messages[m] \in Message
        /\ f.messages[m].queue \in f.queues
        /\ f.messages[m].total \in Nat /\ f.messages[m].dedup # NoColumn
        /\ f.messages[m].received <= f.messages[m].total
    /\ f.messages = [m \in DOMAIN f.messages |-> f.messages[m]]
    /\ f.keys \subseteq Key
    /\ \A k \in f.keys : k.group # NoColumn /\ k.queue \in f.queues
    /\ f.security \in [f.queues -> Policy \cup {NoPolicy}]

(* Whole is the type, the schema and the references of a file.             *)
LEMMA WholeFile ==
    ASSUME NEW f, DatabaseOpeningAssumption
    PROVE  /\ IsFile(f) /\ Migrated(f) /\ ReferencesHold(f) => Whole(f)
           /\ Whole(f) => /\ IsFile(f) /\ Migrated(f) /\ ReferencesHold(f)
                          /\ SoundFile(f) /\ "base" \in f.features
<1>0. NoColumn \notin Nat
  BY DEF DatabaseOpeningAssumption
<1>1. ASSUME IsFile(f), Migrated(f), ReferencesHold(f)
      PROVE  Whole(f)
  <2>1. \A m \in DOMAIN f.messages :
          /\ f.messages[m] \in Message
          /\ f.messages[m].queue \in f.queues
          /\ f.messages[m].total # NoColumn /\ f.messages[m].dedup # NoColumn
          /\ f.messages[m].received <= f.messages[m].total
    BY <1>1 DEF IsFile, Migrated, ReferencesHold, Feature
  <2>2. \A m \in DOMAIN f.messages : f.messages[m].total \in Nat
    BY <2>1 DEF Message
  <2>3. \A k \in f.keys : k.group # NoColumn /\ k.queue \in f.queues
    BY <1>1 DEF IsFile, Migrated, ReferencesHold, Feature
  <2>4. f.security \in [f.queues -> Policy \cup {NoPolicy}]
    BY <1>1 DEF IsFile, Migrated
  <2>5. f.messages = [m \in DOMAIN f.messages |-> f.messages[m]]
    BY <1>1 DEF IsFile
  <2>6. QED
    BY <1>1, <2>1, <2>2, <2>3, <2>4, <2>5 DEF Whole, IsFile, Migrated
<1>2. ASSUME Whole(f)
      PROVE  IsFile(f) /\ Migrated(f) /\ ReferencesHold(f) /\ SoundFile(f)
             /\ "base" \in f.features
  <2>1. f.features = Feature /\ f.oldWindows = {}
    BY <1>2 DEF Whole
  <2>2. Migrated(f) /\ ReferencesHold(f)
    BY <1>2, <2>1 DEF Whole, Migrated, ReferencesHold
  <2>3. SoundFile(f) /\ "base" \in f.features
    BY <2>1, <2>2 DEF SoundFile, Migrated, Feature
  <2>4. f.messages \in [DOMAIN f.messages -> Message]
    BY <1>2 DEF Whole
  <2>5. \A m \in DOMAIN f.messages :
           f.messages[m].total # NoColumn /\ f.messages[m].dedup # NoColumn
    BY <1>0, <1>2 DEF Whole
  <2>6. IsFile(f)
    BY <1>2, <2>1, <2>4, <2>5 DEF Whole, IsFile, Feature
  <2>7. QED
    BY <2>2, <2>3, <2>6
<1>3. QED
  BY <1>1, <1>2

(* One transaction on the open file that leaves it whole and forgets no    *)
(* send.                                                                   *)
LEMMA WorkKeeps ==
    ASSUME OpeningInv, DatabaseOpeningAssumption, NEW p \in Process, NEW changed,
           Work(p, changed), Whole(changed), history' \subseteq Sends,
           \A h \in history' : Remembers(changed, h)
    PROVE  OpeningInv'
<1>1. /\ pc \in [Process -> Labels] /\ foreignKeys \in [Process -> BOOLEAN]
      /\ ProcessInv(p) /\ starts \in Nat /\ IsFile(draft)
  BY DEF OpeningInv, OpeningTypeOK, Labels
<1>2. /\ pc[p] = "open" /\ lock = NoProcess /\ file' = changed
      /\ UNCHANGED <<lock, draft, pc, foreignKeys, starts>>
  BY DEF Work
<1>3. /\ IsFile(file') /\ Migrated(file') /\ ReferencesHold(file') /\ SoundFile(file')
      /\ "base" \in file'.features
  BY <1>2, WholeFile
<1>4. ASSUME NEW x \in Process
      PROVE  ProcessInv(x)'
  <2>1. ProcessInv(x) /\ lock # x
    BY <1>2 DEF OpeningInv, DatabaseOpeningAssumption
  <2>2. pc[x] \notin Stages
    BY <2>1 DEF ProcessInv
  <2>3. pc'[x] = pc[x] /\ foreignKeys'[x] = foreignKeys[x] /\ lock' = lock
    BY <1>2
  <2>4. QED
    BY <1>3, <2>1, <2>2, <2>3 DEF ProcessInv, Stages
<1>5. OpeningTypeOK'
  BY <1>1, <1>2, <1>3 DEF OpeningInv, OpeningTypeOK, Labels
<1>6. QED
  BY <1>2, <1>3, <1>4, <1>5 DEF OpeningInv

(* What a process that has the file open finds.                            *)
LEMMA OpenWhole ==
    ASSUME OpeningInv, DatabaseOpeningAssumption, NEW p \in Process, pc[p] = "open"
    PROVE  /\ Whole(file) /\ foreignKeys[p] /\ history \subseteq Sends
           /\ \A h \in history : Remembers(file, h)
<1>1. ProcessInv(p) /\ OpeningTypeOK
  BY DEF OpeningInv
<1>2. IsFile(file) /\ Migrated(file) /\ ReferencesHold(file) /\ foreignKeys[p]
  BY <1>1 DEF ProcessInv, OpeningTypeOK
<1>3. Whole(file)
  BY <1>2, WholeFile
<1>4. QED
  BY <1>1, <1>2, <1>3 DEF OpeningInv, OpeningTypeOK

(* A whole file remembers by its keys alone.                               *)
LEMMA KeysRemember ==
    ASSUME NEW f, NEW g, Whole(f), Whole(g), NEW h, Remembers(f, h),
           \A k \in f.keys : k.queue = h.queue => k \in g.keys
    PROVE  Remembers(g, h)
<1>1. f.features = Feature /\ g.features = Feature
  BY DEF Whole
<1>2. QED
  BY <1>1 DEF Remembers, Feature

\* A file with these parts and this release's schema.
Assembled(queues, perGroup, messages, keys, security) ==
    [features |-> Feature, queues |-> queues, oldWindows |-> {}, perGroup |-> perGroup,
     messages |-> messages, keys |-> keys, security |-> security]

(* Such a file.                                                            *)
LEMMA WholeParts ==
    ASSUME NEW f, Whole(f)
    PROVE  \E a, b, c, d, e :
             f = [features |-> Feature, queues |-> a, oldWindows |-> {}, perGroup |-> b,
                  messages |-> c, keys |-> d, security |-> e]
BY DEF Whole

(* A send adds a message and a key that remembers it.                      *)
LEMMA SendKeeps ==
    ASSUME OpeningInv, DatabaseOpeningAssumption, NEW p \in Process,
           NEW q \in Sendable, NEW d \in DedupId, NEW g \in Group, Send(p, q, d, g)
    PROVE  /\ OpeningInv'
           /\ \A m \in DOMAIN file'.messages \ DOMAIN file.messages :
                \A h \in history :
                  ~ /\ h.queue = file'.messages[m].queue
                    /\ h.dedup = file'.messages[m].dedup
                    /\ h.queue \in file.perGroup => h.group = file'.messages[m].group
<1> DEFINE row == [queue |-> q, group |-> g, received |-> 0, total |-> 0, dedup |-> d]
           key(m) == [queue |-> q, dedup |-> d, message |-> m, group |-> g]
           sent == [queue |-> q, dedup |-> d, group |-> g]
           messages(m) == With(file.messages, m, row)
           changed(m) == [file EXCEPT !.messages = messages(m), !.keys = @ \cup {key(m)}]
<1>1. PICK m \in FreshIds :
        /\ q \in file.queues /\ Suppressing(q, d, g) = {}
        /\ Work(p, changed(m)) /\ history' = history \cup {sent}
  BY DEF Send
<1>2. /\ Whole(file) /\ history \subseteq Sends /\ pc[p] = "open"
      /\ \A h \in history : Remembers(file, h)
  BY <1>1, OpenWhole DEF Work
<1>3. m \in Nat /\ q \in Queue
  BY DEF FreshIds, DatabaseOpeningAssumption
<1>4. /\ DOMAIN messages(m) = DOMAIN file.messages \cup {m}
      /\ \A x \in DOMAIN messages(m) :
            messages(m)[x] = IF x = m THEN row ELSE file.messages[x]
      /\ messages(m) = [x \in DOMAIN messages(m) |-> messages(m)[x]]
  BY DEF With
<1>5. changed(m) = Assembled(file.queues, file.perGroup, messages(m),
                             file.keys \cup {key(m)}, file.security)
  <2> HIDE DEF messages, key
  <2> DEFINE keys == file.keys \cup {key(m)}
  <2>1. changed(m) = [file EXCEPT !.messages = messages(m), !.keys = keys]
    OBVIOUS
  <2> HIDE DEF keys, changed
  <2>2. changed(m) = Assembled(file.queues, file.perGroup, messages(m), keys, file.security)
    <3>1. PICK a, b, c, s, e :
            file = [features |-> Feature, queues |-> a, oldWindows |-> {},
                    perGroup |-> b, messages |-> c, keys |-> s, security |-> e]
      BY <1>2, WholeParts
    <3>2. QED
      BY ONLY <2>1, <3>1 DEF Assembled
  <2>3. QED
    BY <2>2 DEF keys
<1>6. changed(m) =
          [features |-> Feature, queues |-> file.queues, oldWindows |-> {},
           perGroup |-> file.perGroup, messages |-> messages(m),
           keys |-> file.keys \cup {key(m)}, security |-> file.security]
  BY <1>5 DEF Assembled
<1>7. row \in Message /\ key(m) \in Key /\ sent \in Sends
      /\ row.queue = q /\ row.total = 0 /\ row.dedup = d /\ row.received = 0
      /\ key(m).queue = q /\ key(m).group = g /\ key(m).dedup = d
  BY <1>3 DEF Message, Key, Sends
<1>8. d # NoColumn /\ g # NoColumn
  BY DEF DatabaseOpeningAssumption
<1> HIDE DEF messages, key, row, changed, sent
<1>9. Whole(changed(m))
  <2>1. ASSUME NEW x \in DOMAIN messages(m)
        PROVE  /\ messages(m)[x] \in Message
               /\ messages(m)[x].queue \in file.queues
               /\ messages(m)[x].total \in Nat /\ messages(m)[x].dedup # NoColumn
               /\ messages(m)[x].received <= messages(m)[x].total
    BY <1>1, <1>2, <1>4, <1>7, <1>8 DEF Whole
  <2>2. DOMAIN messages(m) \subseteq Nat
    BY <1>2, <1>3, <1>4 DEF Whole
  <2>3. \A k \in file.keys \cup {key(m)} :
            k \in Key /\ k.group # NoColumn /\ k.queue \in file.queues
    BY <1>1, <1>2, <1>7, <1>8 DEF Whole
  <2>4. /\ file.queues \subseteq Queue /\ file.perGroup \subseteq Queue
        /\ file.security \in [file.queues -> Policy \cup {NoPolicy}]
    BY <1>2 DEF Whole
  <2>5. QED
    BY <1>4, <1>6, <2>1, <2>2, <2>3, <2>4 DEF Whole
<1>10. ASSUME NEW h \in history'
       PROVE  Remembers(changed(m), h)
  <2>1. CASE h \in history
    BY <1>2, <1>6, <1>9, <2>1, KeysRemember
  <2>2. CASE h = sent
    <3>1. key(m) \in changed(m).keys /\ changed(m).features = Feature
      BY <1>6
    <3>2. h.queue = q /\ h.dedup = d /\ h.group = g
      BY <2>2 DEF sent
    <3>3. QED
      BY <1>7, <3>1, <3>2 DEF Remembers, Feature
  <2>3. QED
    BY <1>1, <2>1, <2>2
<1>11. history' \subseteq Sends
  BY <1>1, <1>2, <1>7
<1>12. OpeningInv'
  BY <1>1, <1>9, <1>10, <1>11, WorkKeeps
<1>13. ASSUME NEW x \in DOMAIN file'.messages \ DOMAIN file.messages,
              NEW h \in history, h.queue = file'.messages[x].queue,
              h.dedup = file'.messages[x].dedup,
              h.queue \in file.perGroup => h.group = file'.messages[x].group
       PROVE  FALSE
  <2>1. file'.messages = messages(m)
    BY <1>1, <1>6 DEF Work
  <2>2. file'.messages[x] = row
    BY <1>4, <1>13, <2>1
  <2>3. h.queue = q /\ h.dedup = d /\ (q \in file.perGroup => h.group = g)
    BY <1>13, <2>2 DEF row
  <2>4. PICK k \in file.keys :
          k.queue = h.queue /\ k.dedup = h.dedup /\ k.group \in {h.group, UnknownGroup}
    BY <1>2, <1>13 DEF Remembers, Whole, Feature
  <2>5. k \in Suppressing(q, d, g)
    BY <2>3, <2>4 DEF Suppressing
  <2>6. QED
    BY <1>1, <2>5
<1>14. QED
  BY <1>12, <1>13

(* Work on the rows of messages that are there.                            *)
LEMMA RowsKeep ==
    ASSUME OpeningInv, DatabaseOpeningAssumption, NEW p \in Process, NEW changed, NEW rows,
           changed = Assembled(file.queues, file.perGroup, rows, file.keys, file.security),
           Work(p, changed), UNCHANGED history,
           rows = [x \in DOMAIN rows |-> rows[x]], DOMAIN rows \subseteq DOMAIN file.messages,
           \A x \in DOMAIN rows :
              /\ rows[x] \in Message
              /\ rows[x].queue \in file.queues
              /\ rows[x].total \in Nat /\ rows[x].dedup # NoColumn
              /\ rows[x].received <= rows[x].total
    PROVE  OpeningInv' /\ DOMAIN file'.messages \subseteq DOMAIN file.messages
<1>1. /\ Whole(file) /\ history \subseteq Sends
      /\ \A h \in history : Remembers(file, h)
  BY OpenWhole DEF Work
<1>2. /\ changed.queues = file.queues /\ changed.perGroup = file.perGroup
      /\ changed.messages = rows /\ changed.keys = file.keys
      /\ changed.security = file.security
  BY DEF Assembled
<1>3. Whole(changed)
  BY <1>1, <1>2 DEF Whole, Assembled
<1>4. \A h \in history' : Remembers(changed, h)
  BY <1>1, <1>2, <1>3, KeysRemember
<1>5. QED
  BY <1>1, <1>2, <1>3, <1>4, WorkKeeps DEF Work

(* Rows that are received or moved.                                        *)
LEMMA RowCounted ==
    ASSUME NEW row \in Message, row.total \in Nat, NEW dlq \in Queue
    PROVE  /\ Counted(row) = [queue |-> row.queue, group |-> row.group,
                              received |-> row.received + 1,
                              total |-> row.total + 1, dedup |-> row.dedup]
           /\ Moved(row, dlq) = [queue |-> dlq, group |-> row.group, received |-> 0,
                                 total |-> row.total, dedup |-> row.dedup]
           /\ Counted(row) \in Message /\ Moved(row, dlq) \in Message
<1>1. PICK q \in Queue, g \in Group, r \in Nat, t \in Nat \cup {NoColumn},
           d \in DedupId \cup {NoDedupId, NoColumn} :
        row = [queue |-> q, group |-> g, received |-> r, total |-> t, dedup |-> d]
  BY DEF Message
<1>2. ASSUME NEW counted, counted = Counted(row)
      PROVE  counted = [queue |-> q, group |-> g, received |-> r + 1,
                        total |-> t + 1, dedup |-> d]
  BY ONLY <1>1, <1>2 DEF Counted
<1>3. ASSUME NEW moved, moved = Moved(row, dlq)
      PROVE  moved = [queue |-> dlq, group |-> g, received |-> 0, total |-> t,
                      dedup |-> d]
  BY ONLY <1>1, <1>3 DEF Moved
<1>4. t \in Nat
  BY <1>1
<1>5. /\ [queue |-> q, group |-> g, received |-> r + 1, total |-> t + 1, dedup |-> d]
            \in Message
      /\ [queue |-> dlq, group |-> g, received |-> 0, total |-> t, dedup |-> d]
            \in Message
  BY <1>4 DEF Message
<1>6. QED
  BY <1>1, <1>2, <1>3, <1>5

(* Work on one row.                                                        *)
LEMMA RowKeeps ==
    ASSUME OpeningInv, DatabaseOpeningAssumption, NEW p \in Process,
           NEW m \in DOMAIN file.messages, NEW row \in Message, NEW changed,
           Work(p, changed), UNCHANGED history,
           changed = [file EXCEPT !.messages[m] = row],
           row.queue \in file.queues, row.total \in Nat, row.dedup # NoColumn,
           row.received <= row.total
    PROVE  OpeningInv' /\ DOMAIN file'.messages \subseteq DOMAIN file.messages
<1> DEFINE rows == [file.messages EXCEPT ![m] = row]
<1>1. Whole(file)
  BY OpenWhole DEF Work
<1>2. changed = Assembled(file.queues, file.perGroup, rows, file.keys, file.security)
  <2>1. PICK a, b, c, s, e :
          file = [features |-> Feature, queues |-> a, oldWindows |-> {},
                  perGroup |-> b, messages |-> c, keys |-> s, security |-> e]
    BY <1>1, WholeParts
  <2>2. changed = [file EXCEPT !.messages[m] = row]
    OBVIOUS
  <2>3. QED
    BY ONLY <2>1, <2>2 DEF Assembled, rows
<1>3. /\ DOMAIN rows = DOMAIN file.messages
      /\ \A x \in DOMAIN rows : rows[x] = IF x = m THEN row ELSE file.messages[x]
      /\ rows = [x \in DOMAIN rows |-> rows[x]]
  OBVIOUS
<1> HIDE DEF rows
<1>4. \A x \in DOMAIN rows :
              /\ rows[x] \in Message
              /\ rows[x].queue \in file.queues
              /\ rows[x].total \in Nat /\ rows[x].dedup # NoColumn
              /\ rows[x].received <= rows[x].total
  BY <1>1, <1>3 DEF Whole
<1>5. QED
  BY <1>2, <1>3, <1>4, RowsKeep

(* A receive counts in both columns.                                       *)
LEMMA ReceiveKeeps ==
    ASSUME OpeningInv, DatabaseOpeningAssumption, NEW p \in Process,
           NEW m \in DOMAIN file.messages, Receive(p, m)
    PROVE  OpeningInv' /\ DOMAIN file'.messages \subseteq DOMAIN file.messages
<1> DEFINE row == Counted(file.messages[m])
           changed == [file EXCEPT !.messages[m] = row]
<1>1. Work(p, changed) /\ UNCHANGED history
  BY DEF Receive
<1>2. Whole(file)
  BY <1>1, OpenWhole DEF Work
<1>3. /\ file.messages[m] \in Message /\ file.messages[m].total \in Nat
      /\ file.messages[m].received <= file.messages[m].total
      /\ file.messages[m].received \in Nat
      /\ file.messages[m].queue \in file.queues /\ file.messages[m].dedup # NoColumn
      /\ file.messages[m].queue \in Queue
  BY <1>2 DEF Whole, Message
<1>4. /\ row \in Message /\ row.total \in Nat /\ row.received <= row.total
      /\ row.queue \in file.queues /\ row.dedup # NoColumn
  BY <1>3, RowCounted
<1> HIDE DEF row
<1>5. QED
  BY <1>1, <1>4, RowKeeps

(* A move to the dead-letter queue keeps the total.                        *)
LEMMA DeadLetterKeeps ==
    ASSUME OpeningInv, DatabaseOpeningAssumption, NEW p \in Process,
           NEW m \in DOMAIN file.messages, NEW dlq \in Queue, DeadLetter(p, m, dlq)
    PROVE  OpeningInv' /\ DOMAIN file'.messages \subseteq DOMAIN file.messages
<1> DEFINE row == Moved(file.messages[m], dlq)
           changed == [file EXCEPT !.messages[m] = row]
<1>1. Work(p, changed) /\ UNCHANGED history /\ dlq \in file.queues
  BY DEF DeadLetter
<1>2. Whole(file)
  BY <1>1, OpenWhole DEF Work
<1>3. /\ file.messages[m] \in Message /\ file.messages[m].total \in Nat
      /\ file.messages[m].dedup # NoColumn
  BY <1>2 DEF Whole
<1>4. /\ row \in Message /\ row.total \in Nat /\ row.received <= row.total
      /\ row.queue \in file.queues /\ row.dedup # NoColumn
  BY <1>1, <1>3, RowCounted
<1> HIDE DEF row
<1>5. QED
  BY <1>1, <1>4, RowKeeps

(* A deleted message leaves the keys behind.                               *)
LEMMA DeleteMessageKeeps ==
    ASSUME OpeningInv, DatabaseOpeningAssumption, NEW p \in Process,
           NEW m \in DOMAIN file.messages, DeleteMessage(p, m)
    PROVE  OpeningInv' /\ DOMAIN file'.messages \subseteq DOMAIN file.messages
<1> DEFINE rows == Without(file.messages, {m})
           changed == [file EXCEPT !.messages = rows]
<1>1. Work(p, changed) /\ UNCHANGED history
  BY DEF DeleteMessage
<1>2. Whole(file)
  BY <1>1, OpenWhole DEF Work
<1>3. /\ DOMAIN rows \subseteq DOMAIN file.messages
      /\ \A x \in DOMAIN rows : rows[x] = file.messages[x]
      /\ rows = [x \in DOMAIN rows |-> rows[x]]
  BY DEF Without
<1> HIDE DEF rows
<1>4. changed = Assembled(file.queues, file.perGroup, rows, file.keys, file.security)
  <2>1. PICK a, b, c, s, e :
          file = [features |-> Feature, queues |-> a, oldWindows |-> {},
                  perGroup |-> b, messages |-> c, keys |-> s, security |-> e]
    BY <1>2, WholeParts
  <2>2. changed = [file EXCEPT !.messages = rows]
    OBVIOUS
  <2>3. QED
    BY ONLY <2>1, <2>2 DEF Assembled
<1> HIDE DEF changed
<1>5. \A x \in DOMAIN rows :
              /\ rows[x] \in Message
              /\ rows[x].queue \in file.queues
              /\ rows[x].total \in Nat /\ rows[x].dedup # NoColumn
              /\ rows[x].received <= rows[x].total
  BY <1>2, <1>3 DEF Whole
<1>6. QED
  BY <1>1, <1>3, <1>4, <1>5, RowsKeep

(* Work on the other tables.                                               *)
LEMMA TablesKeep ==
    ASSUME OpeningInv, DatabaseOpeningAssumption, NEW p \in Process, NEW changed,
           NEW queues, NEW perGroup, NEW rows, NEW keys, NEW security,
           changed = Assembled(queues, perGroup, rows, keys, security),
           Work(p, changed), queues \subseteq Queue, perGroup \subseteq Queue,
           rows = [x \in DOMAIN rows |-> rows[x]],
           \A x \in DOMAIN rows :
              /\ x \in DOMAIN file.messages /\ rows[x] = file.messages[x]
              /\ rows[x].queue \in queues,
           keys \subseteq file.keys, \A k \in keys : k.queue \in queues,
           security \in [queues -> Policy \cup {NoPolicy}],
           history' \subseteq history,
           \A h \in history', k \in file.keys : k.queue = h.queue => k \in keys
    PROVE  OpeningInv' /\ DOMAIN file'.messages \subseteq DOMAIN file.messages
<1>1. /\ Whole(file) /\ history \subseteq Sends
      /\ \A h \in history : Remembers(file, h)
  BY OpenWhole DEF Work
<1>2. /\ changed.queues = queues /\ changed.perGroup = perGroup
      /\ changed.messages = rows /\ changed.keys = keys
      /\ changed.security = security
  BY DEF Assembled
<1>3. /\ DOMAIN rows \subseteq Nat
      /\ \A x \in DOMAIN rows :
          /\ rows[x] \in Message
          /\ rows[x].total \in Nat /\ rows[x].dedup # NoColumn
          /\ rows[x].received <= rows[x].total
  BY <1>1 DEF Whole
<1>4. keys \subseteq Key /\ \A k \in keys : k.group # NoColumn
  BY <1>1 DEF Whole
<1>5. Whole(changed)
  BY <1>2, <1>3, <1>4 DEF Whole, Assembled
<1>6. \A h \in history' : Remembers(changed, h)
  BY <1>1, <1>2, <1>5, KeysRemember
<1>7. DOMAIN rows \subseteq DOMAIN file.messages
  OBVIOUS
<1>8. QED
  BY <1>1, <1>2, <1>5, <1>6, <1>7, WorkKeeps DEF Work

(* The statements of queue management.                                     *)
LEMMA SetScopeKeeps ==
    ASSUME OpeningInv, DatabaseOpeningAssumption, NEW p \in Process,
           NEW q \in Sendable, SetScope(p, q)
    PROVE  OpeningInv' /\ DOMAIN file'.messages \subseteq DOMAIN file.messages
<1> DEFINE perGroup == file.perGroup \cup {q}
           changed == [file EXCEPT !.perGroup = perGroup]
<1>1. Work(p, changed) /\ UNCHANGED history /\ q \in file.queues
  BY DEF SetScope
<1>2. Whole(file)
  BY <1>1, OpenWhole DEF Work
<1>3. perGroup \subseteq Queue
  BY <1>1, <1>2 DEF Whole
<1> HIDE DEF perGroup
<1>4. changed = Assembled(file.queues, perGroup, file.messages, file.keys, file.security)
  <2>1. PICK a, b, c, s, e :
          file = [features |-> Feature, queues |-> a, oldWindows |-> {},
                  perGroup |-> b, messages |-> c, keys |-> s, security |-> e]
    BY <1>2, WholeParts
  <2>2. changed = [file EXCEPT !.perGroup = perGroup]
    OBVIOUS
  <2>3. QED
    BY ONLY <2>1, <2>2 DEF Assembled
<1> HIDE DEF changed
<1>5. QED
  BY <1>1, <1>2, <1>3, <1>4, TablesKeep DEF Whole

(* A queue's policy is a value of its security row.                        *)
LEMMA SetPolicyKeeps ==
    ASSUME OpeningInv, DatabaseOpeningAssumption, NEW p \in Process,
           NEW q \in Sendable, NEW policy \in Policy, SetPolicy(p, q, policy)
    PROVE  OpeningInv' /\ DOMAIN file'.messages \subseteq DOMAIN file.messages
<1> DEFINE security == [file.security EXCEPT ![q] = policy]
           changed == [file EXCEPT !.security[q] = policy]
<1>1. Work(p, changed) /\ UNCHANGED history /\ q \in file.queues
  BY DEF SetPolicy
<1>2. Whole(file)
  BY <1>1, OpenWhole DEF Work
<1>3. security \in [file.queues -> Policy \cup {NoPolicy}]
  BY <1>1, <1>2 DEF Whole
<1>4. changed = Assembled(file.queues, file.perGroup, file.messages, file.keys, security)
  <2>1. PICK a, b, c, s, e :
          file = [features |-> Feature, queues |-> a, oldWindows |-> {},
                  perGroup |-> b, messages |-> c, keys |-> s, security |-> e]
    BY <1>2, WholeParts
  <2>2. changed = [file EXCEPT !.security[q] = policy]
    OBVIOUS
  <2>3. QED
    BY ONLY <2>1, <2>2 DEF Assembled, security
<1> HIDE DEF changed, security
<1>5. QED
  BY <1>1, <1>2, <1>3, <1>4, TablesKeep DEF Whole

(* A new queue has a security row.                                         *)
LEMMA CreateQueueKeeps ==
    ASSUME OpeningInv, DatabaseOpeningAssumption, NEW p \in Process,
           NEW q \in Queue, CreateQueue(p, q)
    PROVE  OpeningInv' /\ DOMAIN file'.messages \subseteq DOMAIN file.messages
<1> DEFINE queues == file.queues \cup {q}
           security == With(file.security, q, NoPolicy)
           changed == [file EXCEPT !.queues = queues, !.security = security]
<1>1. Work(p, changed) /\ UNCHANGED history
  BY DEF CreateQueue
<1>2. Whole(file)
  BY <1>1, OpenWhole DEF Work
<1>3. security \in [queues -> Policy \cup {NoPolicy}] /\ queues \subseteq Queue
      /\ file.queues \subseteq queues
  BY <1>2 DEF Whole, With
<1> HIDE DEF security, queues
<1>4. changed = Assembled(queues, file.perGroup, file.messages, file.keys, security)
  <2>1. PICK a, b, c, s, e :
          file = [features |-> Feature, queues |-> a, oldWindows |-> {},
                  perGroup |-> b, messages |-> c, keys |-> s, security |-> e]
    BY <1>2, WholeParts
  <2>2. changed = [file EXCEPT !.queues = queues, !.security = security]
    OBVIOUS
  <2> HIDE DEF changed
  <2>3. QED
    BY ONLY <2>1, <2>2 DEF Assembled
<1> HIDE DEF changed
<1>5. QED
  BY <1>1, <1>2, <1>3, <1>4, TablesKeep DEF Whole

(* With enforced foreign keys no row keeps the name of a deleted queue.    *)
LEMMA DeleteQueueKeeps ==
    ASSUME OpeningInv, DatabaseOpeningAssumption, NEW p \in Process,
           NEW q \in Queue, DeleteQueue(p, q)
    PROVE  OpeningInv' /\ DOMAIN file'.messages \subseteq DOMAIN file.messages
<1> DEFINE named == {m \in DOMAIN file.messages : file.messages[m].queue = q}
           queues == file.queues \ {q}
           perGroup == file.perGroup \ {q}
           rows == Without(file.messages, named)
           keys == {k \in file.keys : k.queue # q}
           security == Without(file.security, {q})
           emptied == [file EXCEPT !.messages = rows, !.keys = keys, !.security = security]
           changed == [emptied EXCEPT !.queues = queues, !.perGroup = perGroup]
<1>2. Whole(file) /\ foreignKeys[p]
  BY OpenWhole DEF DeleteQueue, Work
<1>3. /\ rows = [x \in DOMAIN rows |-> rows[x]]
      /\ \A x \in DOMAIN rows :
            /\ x \in DOMAIN file.messages /\ rows[x] = file.messages[x]
            /\ rows[x].queue \in queues
  BY <1>2 DEF Without, Whole
<1>4. /\ queues \subseteq Queue /\ perGroup \subseteq Queue
      /\ keys \subseteq file.keys /\ \A k \in keys : k.queue \in queues
      /\ \A k \in file.keys : k.queue # q => k \in keys
  BY <1>2 DEF Whole
<1>5. security \in [queues -> Policy \cup {NoPolicy}]
  BY <1>2 DEF Without, Whole
<1>6. emptied.queues = file.queues /\ emptied.perGroup = file.perGroup
  <2>1. PICK a, b, c, s, e :
          file = [features |-> Feature, queues |-> a, oldWindows |-> {},
                  perGroup |-> b, messages |-> c, keys |-> s, security |-> e]
    BY <1>2, WholeParts
  <2>2. emptied = [file EXCEPT !.messages = rows, !.keys = keys, !.security = security]
    OBVIOUS
  <2> HIDE DEF emptied, rows, keys, security
  <2>3. QED
    BY ONLY <2>1, <2>2
<1>7. Work(p, changed) /\ history' = {h \in history : h.queue # q}
  BY <1>2, <1>6 DEF DeleteQueue
<1> HIDE DEF rows, keys, security, queues, perGroup
<1>8. changed = Assembled(queues, perGroup, rows, keys, security)
  <2>1. PICK a, b, c, s, e :
          file = [features |-> Feature, queues |-> a, oldWindows |-> {},
                  perGroup |-> b, messages |-> c, keys |-> s, security |-> e]
    BY <1>2, WholeParts
  <2>2. emptied = [file EXCEPT !.messages = rows, !.keys = keys, !.security = security]
    OBVIOUS
  <2>3. changed = [emptied EXCEPT !.queues = queues, !.perGroup = perGroup]
    OBVIOUS
  <2> HIDE DEF emptied, changed
  <2>4. QED
    BY ONLY <2>1, <2>2, <2>3 DEF Assembled
<1>9. \A h \in history', k \in file.keys : k.queue = h.queue => k \in keys
  BY <1>4, <1>7
<1> HIDE DEF changed
<1>10. QED
  BY <1>3, <1>4, <1>5, <1>7, <1>8, <1>9, TablesKeep
-----------------------------------------------------------------------------
(* Every step of the processes, and what it does to messages and keys.     *)

(* Only a commit leads to `committed`.                                     *)
LEMMA CommitsOnly ==
    ASSUME pc \in [Process -> Labels], NEW p \in Process, NEW label,
           Goto(p, label), label # "committed"
    PROVE  KeptByCommit
<1>1. \A x \in Process : pc[x] = "check" => pc'[x] # "committed"
  BY DEF Goto
<1>2. QED
  BY <1>1 DEF KeptByCommit

(* A step that adds no message.                                            *)
LEMMA NoSend ==
    ASSUME DOMAIN file'.messages \subseteq DOMAIN file.messages
    PROVE  Unsuppressed
BY DEF Unsuppressed

(* Opening, from the connection to the last pragma.                        *)
LEMMA MigrateSteps ==
    ASSUME OpeningInv, DatabaseOpeningAssumption, NEW p \in Process,
           Connect(p) \/ Migrate(p) \/ GiveUp(p) \/ Die(p)
    PROVE  OpeningInv' /\ KeptByCommit /\ Unsuppressed
<1>1. /\ pc \in [Process -> Labels] /\ IsFile(file) /\ SoundFile(file)
  BY InStages
<1>2. CASE Connect(p)
  <2>1. OpeningInv'
    BY <1>2, ConnectKeeps
  <2>2. file'.messages = file.messages
    BY <1>1, <1>2, WithBaseFile DEF Connect
  <2>3. KeptByCommit
    BY <1>1, <1>2, CommitsOnly DEF Connect
  <2>4. QED
    BY <2>1, <2>2, <2>3, NoSend
<1>3. CASE SwitchOff(p) \/ GiveUp(p)
  <2>1. OpeningInv'
    BY <1>3, BeforeTransaction
  <2>2. file' = file /\ (Goto(p, "waiting") \/ Goto(p, "failed"))
    BY <1>3 DEF SwitchOff, GiveUp
  <2>3. KeptByCommit
    BY <1>1, <2>2, CommitsOnly
  <2>4. QED
    BY <2>1, <2>2, <2>3, NoSend
<1>4. CASE Begin(p)
  <2>1. OpeningInv'
    BY <1>4, BeginKeeps
  <2>2. file' = file /\ Goto(p, "columns")
    BY <1>4 DEF Begin
  <2>3. KeptByCommit
    BY <1>1, <2>2, CommitsOnly
  <2>4. QED
    BY <2>1, <2>2, <2>3, NoSend
<1>5. CASE Columns(p) \/ FifoTables(p) \/ Management(p) \/ Security(p)
  <2>1. OpeningInv'
    BY <1>5, ChangeKeeps
  <2>2. file' = file /\ \E label \in {"fifo", "management", "security", "check"} :
                            Goto(p, label)
    BY <1>5 DEF Columns, FifoTables, Management, Security, Change
  <2>3. KeptByCommit
    BY <1>1, <2>2, CommitsOnly
  <2>4. QED
    BY <2>1, <2>2, <2>3, NoSend
<1>6. CASE CheckFails(p) \/ Die(p)
  <2>1. OpeningInv'
    BY <1>6, ReleaseKeeps
  <2>2. file' = file /\ (Goto(p, "failed") \/ Goto(p, "closed"))
    BY <1>6 DEF CheckFails, Die
  <2>3. KeptByCommit
    BY <1>1, <2>2, CommitsOnly
  <2>4. QED
    BY <2>1, <2>2, <2>3, NoSend
<1>7. CASE Commit(p)
  <2>1. OpeningInv' /\ file' = Upgraded(file) /\ "base" \in file.features
    BY <1>7, CommitKeeps
  <2>2. KeptBy(file, file') /\ (Migrated(file) => file' = file)
    BY <1>1, <2>1, UpgradedFile
  <2>3. KeptByCommit
    BY <2>2 DEF KeptByCommit, KeptBy, SameMessages, SameKeys
  <2>4. QED
    BY <2>1, <2>2, <2>3, NoSend DEF KeptBy, SameMessages
<1>8. CASE SwitchOn(p)
  <2>1. OpeningInv'
    BY <1>8, SwitchOnKeeps
  <2>2. file' = file /\ Goto(p, "open")
    BY <1>8 DEF SwitchOn
  <2>3. KeptByCommit
    BY <1>1, <2>2, CommitsOnly
  <2>4. QED
    BY <2>1, <2>2, <2>3, NoSend
<1>9. QED
  BY <1>2, <1>3, <1>4, <1>5, <1>6, <1>7, <1>8 DEF Migrate

(* Work with the open file.                                                *)
LEMMA UseSteps ==
    ASSUME OpeningInv, DatabaseOpeningAssumption, NEW p \in Process, Use(p)
    PROVE  OpeningInv' /\ KeptByCommit /\ Unsuppressed
<1>1. CASE \E q \in Sendable, d \in DedupId, g \in Group : Send(p, q, d, g)
  <2>1. PICK q \in Sendable, d \in DedupId, g \in Group : Send(p, q, d, g)
    BY <1>1
  <2>2. OpeningInv' /\ Unsuppressed
    BY <2>1, SendKeeps DEF Unsuppressed
  <2>3. pc' = pc
    BY <2>1 DEF Send, Work
  <2>4. QED
    BY <2>2, <2>3 DEF KeptByCommit
<1>2. CASE \E q \in Sendable, policy \in Policy : SetScope(p, q) \/ SetPolicy(p, q, policy)
  <2>1. PICK q \in Sendable, policy \in Policy : SetScope(p, q) \/ SetPolicy(p, q, policy)
    BY <1>2
  <2>2. OpeningInv' /\ DOMAIN file'.messages \subseteq DOMAIN file.messages
    BY <2>1, SetScopeKeeps, SetPolicyKeeps
  <2>3. pc' = pc
    BY <2>1 DEF SetScope, SetPolicy, Work
  <2>4. QED
    BY <2>2, <2>3, NoSend DEF KeptByCommit
<1>3. CASE \E m \in DOMAIN file.messages :
              \/ Receive(p, m) \/ DeleteMessage(p, m)
              \/ \E dlq \in Queue : DeadLetter(p, m, dlq)
  <2>1. PICK m \in DOMAIN file.messages :
              \/ Receive(p, m) \/ DeleteMessage(p, m)
              \/ \E dlq \in Queue : DeadLetter(p, m, dlq)
    BY <1>3
  <2>2. OpeningInv' /\ DOMAIN file'.messages \subseteq DOMAIN file.messages
    BY <2>1, ReceiveKeeps, DeleteMessageKeeps, DeadLetterKeeps
  <2>3. pc' = pc
    BY <2>1 DEF Receive, DeleteMessage, DeadLetter, Work
  <2>4. QED
    BY <2>2, <2>3, NoSend DEF KeptByCommit
<1>4. CASE \E q \in Queue : CreateQueue(p, q) \/ DeleteQueue(p, q)
  <2>1. PICK q \in Queue : CreateQueue(p, q) \/ DeleteQueue(p, q)
    BY <1>4
  <2>2. OpeningInv' /\ DOMAIN file'.messages \subseteq DOMAIN file.messages
    BY <2>1, CreateQueueKeeps, DeleteQueueKeeps
  <2>3. pc' = pc
    BY <2>1 DEF CreateQueue, DeleteQueue, Work
  <2>4. QED
    BY <2>2, <2>3, NoSend DEF KeptByCommit
<1>5. QED
  BY <1>1, <1>2, <1>3, <1>4 DEF Use

(* Any step of any process, or none.                                       *)
LEMMA ProcessSteps ==
    ASSUME OpeningInv, DatabaseOpeningAssumption, [Next]_vars
    PROVE  OpeningInv' /\ KeptByCommit /\ Unsuppressed
<1>1. CASE Next
  BY <1>1, MigrateSteps, UseSteps DEF Next
<1>2. CASE UNCHANGED vars
  <2>1. OpeningTypeOK'
    BY <1>2 DEF OpeningInv, OpeningTypeOK, vars
  <2>2. \A p \in Process : ProcessInv(p)'
    BY <1>2 DEF OpeningInv, ProcessInv, vars, Migrated, ReferencesHold
  <2>3. OpeningInv'
    BY <1>2, <2>1, <2>2 DEF OpeningInv, vars, Remembers, SoundFile
  <2>4. pc' = pc /\ file' = file
    BY <1>2 DEF vars
  <2>5. QED
    BY <2>3, <2>4, NoSend DEF KeptByCommit
<1>3. QED
  BY <1>1, <1>2

(* The files of every release start sound.                                 *)
LEMMA OpeningStarts ==
    ASSUME Init, DatabaseOpeningAssumption
    PROVE  OpeningInv
<1>1. /\ IsFile(file) /\ SoundFile(file) /\ history \subseteq Sends
      /\ \A h \in history : Remembers(file, h)
      /\ "base" \notin file.features => history = {}
  <2>1. CASE file = NewFile /\ history = {}
    BY <2>1, NewFileSound
  <2>2. CASE \E legacy \in LegacyFiles : file = legacy.file /\ history = legacy.history
    BY <2>2 DEF DatabaseOpeningAssumption
  <2>3. QED
    BY <2>1, <2>2 DEF Init
<1>2. /\ lock = NoProcess /\ draft = NewFile /\ starts = 0
      /\ pc \in [Process -> Labels] /\ foreignKeys \in [Process -> BOOLEAN]
      /\ \A p \in Process : pc[p] = "closed" /\ ~foreignKeys[p]
  BY DEF Init, Labels
<1>3. OpeningTypeOK
  BY <1>1, <1>2, NewFileSound DEF OpeningTypeOK, Labels
<1>4. \A p \in Process : ProcessInv(p)
  BY <1>2 DEF ProcessInv, Stages, DatabaseOpeningAssumption
<1>5. QED
  BY <1>1, <1>3, <1>4 DEF OpeningInv
-----------------------------------------------------------------------------
(* The command, and the files that it leaves.                              *)

\* A file at a path: ExportInv says this of each.
TargetOK(target) ==
    /\ target = [key |-> target.key, copied |-> target.copied, file |-> target.file,
                 inUse |-> target.inUse]
    /\ target.key \in CipherKey \cup {NoKey}
    /\ target.copied \subseteq Tables
    /\ IsFile(target.file) /\ SoundFile(target.file)
    /\ target.inUse \in BOOLEAN
    /\ target.key = NoKey => target.copied = {} /\ ~target.inUse
    /\ target.inUse => Migrated(target.file) /\ ReferencesHold(target.file)

TargetsOK ==
    /\ targets = [t \in Target |-> targets[t]]
    /\ \A t \in Target : targets[t] = Absent \/ TargetOK(targets[t])

Commands == [at : {"created", "copying", "copied", "done"}, target : Target,
             key : CipherKey]

CommandOK ==
    \/ exporter = NotRunning
    \/ /\ exporter \in Commands
       /\ "base" \in file.features
       /\ targets[exporter.target] # Absent
       /\ LeftByCommand(targets[exporter.target])

(* ExportInv in these parts.                                               *)
LEMMA ExportParts == ExportInv <=> OpeningTypeOK /\ TargetsOK /\ CommandOK
<1>1. NotRunning \notin Commands
  <2>1. \A command \in Commands : command.at # "idle"
    BY DEF Commands
  <2>2. QED
    BY <2>1 DEF NotRunning
<1>2. QED
  BY <1>1 DEF ExportInv, FilesTypeOK, TargetsOK, TargetOK, CommandOK, Commands

(* A new file, and a file that has been opened.                            *)
LEMMA EmptyTargetOK == TargetOK(EmptyTarget) /\ EmptyTarget # Absent
<1>1. /\ EmptyTarget = [key |-> NoKey, copied |-> {}, file |-> NewFile, inUse |-> FALSE]
      /\ EmptyTarget.key = NoKey /\ EmptyTarget.copied = {} /\ ~EmptyTarget.inUse
      /\ EmptyTarget.inUse = FALSE /\ EmptyTarget.file = NewFile
  BY DEF EmptyTarget
<1>2. EmptyTarget # Absent
  BY <1>1 DEF Absent
<1>3. QED
  BY <1>1, <1>2, NewFileSound DEF TargetOK

(* Lqs::open on any file.                                                  *)
LEMMA OpenedFile ==
    ASSUME NEW f, IsFile(f), SoundFile(f), DatabaseOpeningAssumption
    PROVE  /\ IsFile(Opened(f)) /\ SoundFile(Opened(f))
           /\ ReferencesHold(Opened(f)) => Migrated(Opened(f))
<1>1. IsFile(WithBase(f)) /\ SoundFile(WithBase(f)) /\ "base" \in WithBase(f).features
  BY WithBaseFile
<1>2. QED
  BY <1>1, UpgradedFile DEF Opened

(* sqlcipher_export, so far.                                               *)
LEMMA CopyFile ==
    ASSUME NEW f, IsFile(f), SoundFile(f), "base" \in f.features, NEW tables
    PROVE  IsFile(Copy(f, tables)) /\ SoundFile(Copy(f, tables))
<1> DEFINE queues == IF "queues" \in tables THEN f.queues ELSE {}
           oldWindows == IF "queues" \in tables THEN f.oldWindows ELSE {}
           perGroup == IF "queues" \in tables THEN f.perGroup ELSE {}
           messages == IF "messages" \in tables THEN f.messages ELSE NoRows
           keys == IF "keys" \in tables THEN f.keys ELSE {}
           security == IF "security" \in tables THEN f.security ELSE NoRows
           g == Copy(f, tables)
<1>1. PICK a, b, c, d, e, h, i :
        f = [features |-> a, queues |-> b, oldWindows |-> c, perGroup |-> d,
             messages |-> e, keys |-> h, security |-> i]
  BY DEF IsFile
<1>2. g = [f EXCEPT !.queues = queues, !.oldWindows = oldWindows, !.perGroup = perGroup,
                    !.messages = messages, !.keys = keys, !.security = security]
  BY DEF Copy
<1>3. DOMAIN NoRows = {} /\ \A S : NoRows \in [{} -> S]
  BY DEF NoRows
<1>4. /\ {queues, oldWindows, perGroup} \subseteq SUBSET Queue
      /\ messages \in {f.messages, NoRows}
      /\ keys \subseteq f.keys /\ security \in {f.security, NoRows}
  BY DEF IsFile
<1> HIDE DEF queues, oldWindows, perGroup, messages, keys, security, g
<1>5. g = [features |-> f.features, queues |-> queues, oldWindows |-> oldWindows,
           perGroup |-> perGroup, messages |-> messages, keys |-> keys,
           security |-> security]
  BY ONLY <1>1, <1>2
<1>6. /\ g.features = f.features /\ g.queues = queues /\ g.oldWindows = oldWindows
      /\ g.perGroup = perGroup /\ g.messages = messages /\ g.keys = keys
      /\ g.security = security
  BY <1>5
<1>7. /\ DOMAIN messages \subseteq DOMAIN f.messages
      /\ \A m \in DOMAIN messages : messages[m] = f.messages[m]
      /\ messages \in [DOMAIN messages -> Message]
  <2>1. f.messages \in [DOMAIN f.messages -> Message]
    BY DEF IsFile
  <2>2. QED
    BY <1>3, <1>4, <2>1
<1>8. DOMAIN security \subseteq Queue
      /\ security \in [DOMAIN security -> Policy \cup {NoPolicy}]
  <2>1. DOMAIN f.security \subseteq Queue
        /\ f.security \in [DOMAIN f.security -> Policy \cup {NoPolicy}]
    BY DEF IsFile
  <2>2. QED
    BY <1>3, <1>4, <2>1
<1>9. IsFile(g)
  <2>1. /\ g = [features |-> g.features, queues |-> g.queues, oldWindows |-> g.oldWindows,
                perGroup |-> g.perGroup, messages |-> g.messages, keys |-> g.keys,
                security |-> g.security]
    BY <1>5, <1>6
  <2>2. /\ g.features \subseteq Feature
        /\ DOMAIN g.messages \subseteq Nat
        /\ \A m \in DOMAIN g.messages :
            /\ g.messages[m].total = NoColumn <=> "totals" \notin g.features
            /\ g.messages[m].dedup = NoColumn <=> "dedupIds" \notin g.features
        /\ g.keys \subseteq Key
        /\ \A k \in g.keys : k.group = NoColumn <=> "groups" \notin g.features
    BY <1>4, <1>6, <1>7 DEF IsFile
  <2>3. QED
    BY <1>4, <1>6, <1>7, <1>8, <2>1, <2>2 DEF IsFile
<1>10. SoundFile(g)
  BY <1>6, <1>7 DEF SoundFile
<1>11. QED
  BY <1>9, <1>10 DEF g

\* How the steps write to a target.
Started(target, key, f) == [target EXCEPT !.key = key, !.file = f]
Extended(target, copied, f) == [target EXCEPT !.copied = copied, !.file = f]
Rewritten(target, f) == [target EXCEPT !.file = f]
Served(target, key, f) == [target EXCEPT !.key = key, !.file = f, !.inUse = TRUE]

(* The empty tables under a key.                                          *)
LEMMA StartedTarget ==
    ASSUME NEW target, TargetOK(target), NEW key, NEW f
    PROVE  Started(target, key, f) =
             [key |-> key, copied |-> target.copied, file |-> f,
              inUse |-> target.inUse]
<1>1. PICK a, b, c, d :
        target = [key |-> a, copied |-> b, file |-> c, inUse |-> d]
  BY DEF TargetOK
<1>2. ASSUME NEW after, after = Started(target, key, f)
      PROVE  after = [key |-> key, copied |-> b, file |-> f, inUse |-> d]
  BY ONLY <1>1, <1>2 DEF Started
<1>3. target.key = a /\ target.copied = b /\ target.inUse = d
  BY <1>1
<1>4. QED
  BY <1>2, <1>3

(* More of the rows.                                                      *)
LEMMA ExtendedTarget ==
    ASSUME NEW target, TargetOK(target), NEW copied, NEW f
    PROVE  Extended(target, copied, f) =
             [key |-> target.key, copied |-> copied, file |-> f,
              inUse |-> target.inUse]
<1>1. PICK a, b, c, d :
        target = [key |-> a, copied |-> b, file |-> c, inUse |-> d]
  BY DEF TargetOK
<1>2. ASSUME NEW after, after = Extended(target, copied, f)
      PROVE  after = [key |-> a, copied |-> copied, file |-> f, inUse |-> d]
  BY ONLY <1>1, <1>2 DEF Extended
<1>3. target.key = a /\ target.copied = b /\ target.inUse = d
  BY <1>1
<1>4. QED
  BY <1>2, <1>3

(* The copy opened by the command.                                        *)
LEMMA RewrittenTarget ==
    ASSUME NEW target, TargetOK(target), NEW f
    PROVE  Rewritten(target, f) =
             [key |-> target.key, copied |-> target.copied, file |-> f,
              inUse |-> target.inUse]
<1>1. PICK a, b, c, d :
        target = [key |-> a, copied |-> b, file |-> c, inUse |-> d]
  BY DEF TargetOK
<1>2. ASSUME NEW after, after = Rewritten(target, f)
      PROVE  after = [key |-> a, copied |-> b, file |-> f, inUse |-> d]
  BY ONLY <1>1, <1>2 DEF Rewritten
<1>3. target.key = a /\ target.copied = b /\ target.inUse = d
  BY <1>1
<1>4. QED
  BY <1>2, <1>3

(* A file opened by a server.                                             *)
LEMMA ServedTarget ==
    ASSUME NEW target, TargetOK(target), NEW key, NEW f
    PROVE  Served(target, key, f) =
             [key |-> key, copied |-> target.copied, file |-> f,
              inUse |-> TRUE]
<1>1. PICK a, b, c, d :
        target = [key |-> a, copied |-> b, file |-> c, inUse |-> d]
  BY DEF TargetOK
<1>2. ASSUME NEW after, after = Served(target, key, f)
      PROVE  after = [key |-> key, copied |-> b, file |-> f, inUse |-> TRUE]
  BY ONLY <1>1, <1>2 DEF Served
<1>3. target.key = a /\ target.copied = b /\ target.inUse = d
  BY <1>1
<1>4. QED
  BY <1>2, <1>3

(* A step that writes one target.                                          *)
LEMMA OneTarget ==
    ASSUME TargetsOK, NEW t \in Target, NEW target, TargetOK(target),
           targets' = [targets EXCEPT ![t] = target]
    PROVE  /\ TargetsOK' /\ targets'[t] = target
           /\ \A x \in Target \ {t} : targets'[x] = targets[x]
<1>1. targets'[t] = target /\ \A x \in Target \ {t} : targets'[x] = targets[x]
  BY DEF TargetsOK
<1>2. \A x \in Target : targets'[x] = Absent \/ TargetOK(targets'[x])
  BY <1>1 DEF TargetsOK
<1>3. targets' = [x \in Target |-> targets'[x]]
  BY DEF TargetsOK
<1>4. QED
  BY <1>1, <1>2, <1>3 DEF TargetsOK

\* What a step of the command has to begin with, and what it keeps.
FilesInv == OpeningInv /\ TargetsOK /\ CommandOK

\* A finished or served target of this step.
Kept(before, after) ==
    /\ after.key = before.key
    /\ after.file \in {before.file, Opened(before.file)}

(* FinishedKept, when only the target t is written.                        *)
LEMMA OthersKept ==
    ASSUME NEW t \in Target, \A x \in Target \ {t} : targets'[x] = targets[x],
           \/ targets[t] = Absent
           \/ ~targets[t].inUse /\ targets[t].copied # Tables
           \/ Kept(targets[t], targets'[t])
    PROVE  FinishedKept
BY DEF FinishedKept, Kept

(* A step of the command leaves the source alone.                          *)
LEMMA SourceKept ==
    ASSUME OpeningInv, UNCHANGED vars
    PROVE  OpeningInv' /\ file' = file
<1>1. OpeningTypeOK'
  BY DEF OpeningInv, OpeningTypeOK, vars
<1>2. \A p \in Process : ProcessInv(p)'
  BY DEF OpeningInv, ProcessInv, vars, Migrated, ReferencesHold
<1>3. QED
  BY <1>1, <1>2 DEF OpeningInv, vars, Remembers, SoundFile

(* OpenOptions::create_new.                                                *)
LEMMA CreateTargetKeeps ==
    ASSUME FilesInv, NEW t \in Target, NEW key \in CipherKey, CreateTarget(t, key)
    PROVE  FilesInv' /\ FinishedKept
<1>1. /\ targets[t] = Absent /\ "base" \in file.features
      /\ targets' = [targets EXCEPT ![t] = EmptyTarget]
      /\ exporter' = [at |-> "created", target |-> t, key |-> key]
      /\ UNCHANGED vars
  BY DEF CreateTarget, Vacant
<1>2. OpeningInv' /\ file' = file
  BY <1>1, SourceKept DEF FilesInv
<1>3. /\ TargetsOK' /\ targets'[t] = EmptyTarget
      /\ \A x \in Target \ {t} : targets'[x] = targets[x]
  BY <1>1, OneTarget, EmptyTargetOK DEF FilesInv
<1>4. /\ exporter' \in Commands /\ exporter'.target = t /\ exporter'.at = "created"
  BY <1>1 DEF Commands
<1>5. CommandOK'
  BY <1>1, <1>2, <1>3, <1>4, EmptyTargetOK DEF CommandOK, LeftByCommand
<1>6. QED
  BY <1>1, <1>2, <1>3, <1>5, OthersKept DEF FilesInv

(* The target of a running command.                                        *)
LEMMA Running ==
    ASSUME FilesInv, exporter # NotRunning
    PROVE  /\ exporter \in Commands /\ exporter.target \in Target
           /\ exporter.key \in CipherKey
           /\ "base" \in file.features /\ IsFile(file) /\ SoundFile(file)
           /\ targets[exporter.target] # Absent
           /\ TargetOK(targets[exporter.target])
           /\ LeftByCommand(targets[exporter.target])
<1>1. exporter \in Commands /\ "base" \in file.features
      /\ targets[exporter.target] # Absent
      /\ LeftByCommand(targets[exporter.target])
  BY DEF FilesInv, CommandOK
<1>2. exporter.target \in Target /\ exporter.key \in CipherKey
  BY <1>1 DEF Commands
<1>3. QED
  BY <1>1, <1>2 DEF FilesInv, TargetsOK, OpeningInv, OpeningTypeOK

(* The next stage of a command.                                            *)
LEMMA NextStage ==
    ASSUME NEW command \in Commands, NEW stage \in {"created", "copying", "copied", "done"},
           NEW after, after = [command EXCEPT !.at = stage]
    PROVE  /\ after \in Commands /\ after.at = stage
           /\ after.target = command.target /\ after.key = command.key
           /\ command.at # "idle" /\ command # NotRunning
<1>1. PICK a \in {"created", "copying", "copied", "done"}, t \in Target, k \in CipherKey :
        command = [at |-> a, target |-> t, key |-> k]
  BY DEF Commands
<1>2. after = [at |-> stage, target |-> t, key |-> k]
  BY <1>1
<1>3. command.at # "idle"
  BY <1>1
<1>4. QED
  BY <1>1, <1>2, <1>3 DEF Commands, NotRunning

(* The empty tables of the copy.                                           *)
LEMMA CreateTablesKeeps ==
    ASSUME FilesInv, PlaintextMigrationAssumption, CreateTables
    PROVE  FilesInv' /\ FinishedKept
<1> DEFINE t == exporter.target
           target == [key |-> exporter.key, copied |-> {}, file |-> Copy(file, {}),
                      inUse |-> FALSE]
           written == [targets[t] EXCEPT !.key = exporter.key, !.file = Copy(file, {})]
<1>1. /\ exporter.at = "created" /\ UNCHANGED vars
      /\ targets' = [targets EXCEPT ![t] = written]
      /\ exporter' = [exporter EXCEPT !.at = "copying"]
  BY DEF CreateTables
<1>2. exporter # NotRunning
  BY <1>1 DEF NotRunning
<1>3. /\ exporter \in Commands /\ t \in Target /\ exporter.key \in CipherKey
      /\ "base" \in file.features /\ IsFile(file) /\ SoundFile(file)
      /\ targets[t] = EmptyTarget
  BY <1>1, <1>2, Running DEF LeftByCommand
<1>4. OpeningInv' /\ file' = file
  BY <1>1, SourceKept DEF FilesInv
<1>5. /\ exporter' \in Commands /\ exporter'.at = "copying"
      /\ exporter'.target = t /\ exporter'.key = exporter.key
  BY <1>1, <1>3, NextStage
<1>6. targets' = [targets EXCEPT ![t] = target]
  <2>1. written = Started(targets[t], exporter.key, Copy(file, {}))
    BY DEF Started
  <2>2. targets[t].copied = {} /\ targets[t].inUse = FALSE /\ TargetOK(targets[t])
    BY <1>3, EmptyTargetOK DEF EmptyTarget
  <2> HIDE DEF written, t
  <2>3. written = [key |-> exporter.key, copied |-> targets[t].copied,
                   file |-> Copy(file, {}), inUse |-> targets[t].inUse]
    BY <2>1, <2>2, StartedTarget
  <2>4. written = target
    BY <2>2, <2>3
  <2>5. QED
    BY <1>1, <2>4 DEF t
<1>7. TargetOK(target) /\ target # Absent
  BY <1>3, CopyFile DEF TargetOK, Absent, PlaintextMigrationAssumption
<1>8. /\ TargetsOK' /\ targets'[t] = target
      /\ \A x \in Target \ {t} : targets'[x] = targets[x]
  <2> HIDE DEF target
  <2>1. QED
    BY <1>3, <1>6, <1>7, OneTarget DEF FilesInv
<1>9. CommandOK'
  BY <1>3, <1>4, <1>5, <1>7, <1>8 DEF CommandOK, LeftByCommand
<1>10. ~targets[t].inUse /\ targets[t].copied # Tables
  BY <1>3 DEF EmptyTarget, Tables
<1>11. QED
  BY <1>3, <1>4, <1>8, <1>9, <1>10, OthersKept DEF FilesInv

(* The rows of one more table.                                             *)
LEMMA CopyTableKeeps ==
    ASSUME FilesInv, PlaintextMigrationAssumption, NEW table \in Tables, CopyTable(table)
    PROVE  FilesInv' /\ FinishedKept
<1> DEFINE t == exporter.target
           copied == targets[t].copied \cup {table}
           target == [key |-> exporter.key, copied |-> copied,
                      file |-> Copy(file, copied), inUse |-> FALSE]
           written == [targets[t] EXCEPT !.copied = copied, !.file = Copy(file, copied)]
<1>1. /\ exporter.at = "copying" /\ UNCHANGED <<vars, exporter>>
      /\ table \notin targets[t].copied
      /\ targets' = [targets EXCEPT ![t] = written]
  BY DEF CopyTable
<1>2. exporter # NotRunning
  BY <1>1 DEF NotRunning
<1>3. /\ exporter \in Commands /\ t \in Target /\ exporter.key \in CipherKey
      /\ "base" \in file.features /\ IsFile(file) /\ SoundFile(file)
      /\ TargetOK(targets[t])
      /\ targets[t] = [key |-> exporter.key, copied |-> targets[t].copied,
                       file |-> Copy(file, targets[t].copied), inUse |-> FALSE]
  BY <1>1, <1>2, Running DEF LeftByCommand
<1>4. OpeningInv' /\ file' = file
  BY <1>1, SourceKept DEF FilesInv
<1>5. targets[t].key = exporter.key /\ targets[t].inUse = FALSE
      /\ copied \subseteq Tables
  BY <1>3 DEF TargetOK
<1>6. targets' = [targets EXCEPT ![t] = target]
  <2> HIDE DEF copied
  <2>1. written = Extended(targets[t], copied, Copy(file, copied))
    BY DEF Extended
  <2> HIDE DEF written, t
  <2>2. written = [key |-> targets[t].key, copied |-> copied,
                   file |-> Copy(file, copied), inUse |-> targets[t].inUse]
    BY <1>3, <2>1, ExtendedTarget
  <2>3. written = target
    BY <1>5, <2>2
  <2>4. QED
    BY <1>1, <2>3 DEF t
<1> HIDE DEF copied
<1>7. TargetOK(target) /\ target # Absent
  BY <1>3, <1>5, CopyFile DEF TargetOK, Absent, PlaintextMigrationAssumption
<1>8. /\ TargetsOK' /\ targets'[t] = target
      /\ \A x \in Target \ {t} : targets'[x] = targets[x]
  <2> HIDE DEF target
  <2>1. QED
    BY <1>3, <1>6, <1>7, OneTarget DEF FilesInv
<1>9. CommandOK'
  <2>1. targets'[t].copied = copied
    BY <1>8
  <2>2. targets'[t] = [key |-> exporter.key, copied |-> targets'[t].copied,
                       file |-> Copy(file, targets'[t].copied), inUse |-> FALSE]
    BY <1>8, <2>1
  <2> HIDE DEF target
  <2>3. QED
    BY <1>1, <1>3, <1>4, <1>7, <1>8, <2>2 DEF CommandOK, LeftByCommand
<1>10. ~targets[t].inUse /\ targets[t].copied # Tables
  BY <1>1, <1>5
<1>11. QED
  BY <1>3, <1>4, <1>8, <1>9, <1>10, OthersKept DEF FilesInv

(* The export has copied every table; or the command ends.                 *)
LEMMA CommandMoves ==
    ASSUME FilesInv, ExportReturns \/ ExporterEnds
    PROVE  FilesInv' /\ FinishedKept
<1>1. UNCHANGED <<vars, targets>>
  BY DEF ExportReturns, ExporterEnds
<1>2. OpeningInv' /\ file' = file /\ targets' = targets
  BY <1>1, SourceKept DEF FilesInv
<1>3. TargetsOK'
  BY <1>2 DEF FilesInv, TargetsOK
<1>4. FinishedKept
  BY <1>2 DEF FinishedKept
<1>5. CommandOK'
  <2>1. CASE ExporterEnds
    BY <2>1 DEF ExporterEnds, CommandOK
  <2>2. CASE ExportReturns
    <3>1. /\ exporter.at = "copying" /\ targets[exporter.target].copied = Tables
          /\ exporter' = [exporter EXCEPT !.at = "copied"]
      BY <2>2 DEF ExportReturns, CopyEnds
    <3>2. exporter # NotRunning
      BY <3>1 DEF NotRunning
    <3>3. /\ exporter \in Commands /\ "base" \in file.features
          /\ targets[exporter.target] # Absent
          /\ targets[exporter.target] =
               [key |-> exporter.key, copied |-> targets[exporter.target].copied,
                file |-> Copy(file, targets[exporter.target].copied), inUse |-> FALSE]
      BY <3>1, <3>2, Running DEF LeftByCommand
    <3>4. /\ exporter' \in Commands /\ exporter'.at = "copied"
          /\ exporter'.target = exporter.target /\ exporter'.key = exporter.key
      BY <3>1, <3>3, NextStage
    <3>5. QED
      BY <1>2, <3>1, <3>3, <3>4 DEF CommandOK, LeftByCommand
  <2>3. QED
    BY <2>1, <2>2
<1>6. QED
  BY <1>2, <1>3, <1>4, <1>5 DEF FilesInv

(* The command opens its copy.                                             *)
LEMMA OpenCopyKeeps ==
    ASSUME FilesInv, DatabaseOpeningAssumption, PlaintextMigrationAssumption, OpenCopy
    PROVE  FilesInv' /\ FinishedKept
<1> DEFINE t == exporter.target
           copy == Copy(file, Tables)
           target == [key |-> exporter.key, copied |-> Tables,
                      file |-> Opened(targets[t].file), inUse |-> FALSE]
           written == [targets[t] EXCEPT !.file = Opened(@)]
<1>1. /\ exporter.at = "copied" /\ UNCHANGED vars
      /\ targets' = [targets EXCEPT ![t].file = Opened(@)]
      /\ exporter' = [exporter EXCEPT !.at = "done"]
  BY DEF OpenCopy
<1>2. exporter # NotRunning
  BY <1>1 DEF NotRunning
<1>3. /\ exporter \in Commands /\ t \in Target /\ exporter.key \in CipherKey
      /\ "base" \in file.features /\ IsFile(file) /\ SoundFile(file)
      /\ TargetOK(targets[t])
      /\ targets[t] = [key |-> exporter.key, copied |-> Tables, file |-> copy,
                       inUse |-> FALSE]
  BY <1>1, <1>2, Running DEF LeftByCommand
<1>4. OpeningInv' /\ file' = file
  BY <1>1, SourceKept DEF FilesInv
<1>5. /\ targets[t].key = exporter.key /\ targets[t].inUse = FALSE
      /\ targets[t].copied = Tables /\ targets[t].file = copy
  BY <1>3
<1>6. copy = file
  <2>1. PICK a, b, c, d, e, h, i :
          file = [features |-> a, queues |-> b, oldWindows |-> c, perGroup |-> d,
                  messages |-> e, keys |-> h, security |-> i]
    BY <1>3 DEF IsFile
  <2>2. copy = [file EXCEPT !.queues = file.queues, !.oldWindows = file.oldWindows,
                            !.perGroup = file.perGroup, !.messages = file.messages,
                            !.keys = file.keys, !.security = file.security]
    BY DEF Copy, Tables
  <2> HIDE DEF copy
  <2>3. QED
    BY ONLY <2>1, <2>2
<1>7. targets' = [targets EXCEPT ![t] = target]
  <2>1. written = Rewritten(targets[t], Opened(targets[t].file))
    BY DEF Rewritten
  <2>2. targets' = [targets EXCEPT ![t] = written]
    BY <1>1
  <2> HIDE DEF written, t
  <2>3. written = [key |-> targets[t].key, copied |-> targets[t].copied,
                   file |-> Opened(targets[t].file), inUse |-> targets[t].inUse]
    BY <1>3, <2>1, RewrittenTarget
  <2>4. written = target
    BY <1>5, <2>3
  <2>5. QED
    BY <2>2, <2>4
<1>8. TargetOK(target) /\ target # Absent
  BY <1>3, <1>5, OpenedFile DEF TargetOK, Absent, PlaintextMigrationAssumption
<1>9. /\ TargetsOK' /\ targets'[t] = target
      /\ \A x \in Target \ {t} : targets'[x] = targets[x]
  <2> HIDE DEF target
  <2>1. QED
    BY <1>3, <1>7, <1>8, OneTarget DEF FilesInv
<1>10. /\ exporter' \in Commands /\ exporter'.at = "done"
       /\ exporter'.target = t /\ exporter'.key = exporter.key
  BY <1>1, <1>3, NextStage
<1>11. targets'[t] = [key |-> exporter.key, copied |-> Tables, file |-> Opened(file),
                      inUse |-> FALSE]
  BY <1>5, <1>6, <1>9
<1>12. CommandOK'
  BY <1>3, <1>4, <1>8, <1>9, <1>10, <1>11 DEF CommandOK, LeftByCommand
<1>13. Kept(targets[t], targets'[t])
  BY <1>5, <1>9 DEF Kept
<1>14. QED
  BY <1>3, <1>4, <1>9, <1>12, <1>13, OthersKept DEF FilesInv

(* A server opens a file, whatever state it was left in.                   *)
LEMMA ServeKeeps ==
    ASSUME FilesInv, DatabaseOpeningAssumption, PlaintextMigrationAssumption,
           NEW t \in Target, NEW key \in CipherKey, Serve(t, key)
    PROVE  FilesInv' /\ FinishedKept
<1> DEFINE before == FileAt(t)
           f == Opened(before.file)
           target == [key |-> key, copied |-> before.copied, file |-> f, inUse |-> TRUE]
           written == [before EXCEPT !.key = key, !.file = f, !.inUse = TRUE]
<1>1. /\ exporter = NotRunning /\ UNCHANGED <<vars, exporter>>
      /\ Unlocks(before, key) /\ ReferencesHold(f)
      /\ targets' = [targets EXCEPT ![t] = written]
  BY DEF Serve
<1>2. TargetOK(before)
  BY EmptyTargetOK DEF FileAt, FilesInv, TargetsOK
<1>3. OpeningInv' /\ file' = file
  BY <1>1, SourceKept DEF FilesInv
<1>4. written = target
  <2>1. written = Served(before, key, f)
    BY DEF Served
  <2> HIDE DEF written, before, f
  <2>2. QED
    BY <1>2, <2>1, ServedTarget
<1>5. IsFile(f) /\ SoundFile(f) /\ Migrated(f)
  BY <1>1, <1>2, OpenedFile DEF TargetOK
<1>6. /\ target.key = key /\ target.copied = before.copied /\ target.file = f
      /\ target.inUse = TRUE
  OBVIOUS
<1>7. TargetOK(target)
  <2>1. before.copied \subseteq Tables
    BY <1>2 DEF TargetOK
  <2>2. key # NoKey
    BY DEF PlaintextMigrationAssumption
  <2> HIDE DEF before, f
  <2>3. QED
    BY <1>1, <1>5, <1>6, <2>1, <2>2 DEF TargetOK
<1>8. /\ TargetsOK' /\ targets'[t] = target
      /\ \A x \in Target \ {t} : targets'[x] = targets[x]
  <2>1. targets' = [targets EXCEPT ![t] = target]
    BY <1>1, <1>4
  <2> HIDE DEF target
  <2>2. QED
    BY <1>7, <2>1, OneTarget DEF FilesInv
<1>9. CommandOK'
  BY <1>1 DEF CommandOK
<1>10. \/ targets[t] = Absent
       \/ ~targets[t].inUse /\ targets[t].copied # Tables
       \/ Kept(targets[t], targets'[t])
  <2>1. ASSUME targets[t] # Absent, targets[t].inUse \/ targets[t].copied = Tables
        PROVE  Kept(targets[t], targets'[t])
    <3>1. before = targets[t]
      BY <2>1 DEF FileAt
    <3>2. targets[t].key # NoKey
      BY <1>2, <2>1, <3>1 DEF TargetOK, Tables
    <3>3. targets[t].key = key
      BY <1>1, <3>1, <3>2 DEF Unlocks
    <3>4. QED
      BY <1>8, <3>1, <3>3 DEF Kept
  <2>2. QED
    BY <2>1
<1>11. QED
  BY <1>3, <1>8, <1>9, <1>10, OthersKept DEF FilesInv
-----------------------------------------------------------------------------
(* All steps, and the theorems.                                            *)

(* Nothing has been copied and nobody has begun.                           *)
LEMMA FilesStart ==
    ASSUME FilesInit, DatabaseOpeningAssumption
    PROVE  FilesInv
<1>1. OpeningInv
  BY OpeningStarts DEF FilesInit
<1>2. TargetsOK /\ CommandOK
  BY DEF FilesInit, ExportInit, TargetsOK, CommandOK
<1>3. QED
  BY <1>1, <1>2 DEF FilesInv

(* One step of anybody keeps FilesInv.                                     *)
LEMMA FilesSteps ==
    ASSUME FilesInv, DatabaseOpeningAssumption, PlaintextMigrationAssumption,
           [FilesNext]_allVars
    PROVE  FilesInv' /\ FinishedKept
<1>1. CASE SourceInUse /\ Next /\ UNCHANGED <<targets, exporter>>
  <2>1. OpeningInv'
    BY <1>1, ProcessSteps DEF FilesInv
  <2>2. \A t \in Target : targets[t] = Absent
    BY <1>1 DEF SourceInUse
  <2>3. exporter = NotRunning
    <3>1. exporter # NotRunning => exporter.target \in Target
      BY DEF FilesInv, CommandOK, Commands
    <3>2. QED
      BY <2>2, <3>1 DEF FilesInv, CommandOK
  <2>4. TargetsOK' /\ CommandOK' /\ FinishedKept
    BY <1>1, <2>2, <2>3 DEF FilesInv, TargetsOK, CommandOK, FinishedKept
  <2>5. QED
    BY <2>1, <2>4 DEF FilesInv
<1>2. CASE Export
  <2>1. CASE \E t \in Target, key \in CipherKey : CreateTarget(t, key) \/ Serve(t, key)
    BY <2>1, CreateTargetKeeps, ServeKeeps
  <2>2. CASE CreateTables
    BY <2>2, CreateTablesKeeps
  <2>3. CASE \E table \in Tables : CopyTable(table)
    BY <2>3, CopyTableKeeps
  <2>4. CASE ExportReturns \/ ExporterEnds
    BY <2>4, CommandMoves
  <2>5. CASE OpenCopy
    BY <2>5, OpenCopyKeeps
  <2>6. QED
    BY <1>2, <2>1, <2>2, <2>3, <2>4, <2>5 DEF Export
<1>3. CASE UNCHANGED allVars
  <2>1. OpeningInv' /\ file' = file /\ targets' = targets /\ exporter' = exporter
    BY <1>3, SourceKept DEF FilesInv, allVars
  <2>2. TargetsOK' /\ CommandOK' /\ FinishedKept
    BY <2>1 DEF FilesInv, TargetsOK, CommandOK, FinishedKept, LeftByCommand
  <2>3. QED
    BY <2>1, <2>2 DEF FilesInv
<1>4. QED
  BY <1>1, <1>2, <1>3 DEF FilesNext

(* Steps of the processes are the only ones that touch the source.         *)
LEMMA SourceSteps == [FilesNext]_allVars => [Next]_vars
<1>1. Export => UNCHANGED vars
  BY DEF Export, CreateTarget, Serve, CreateTables, CopyTable, ExportReturns, OpenCopy,
         ExporterEnds
<1>2. QED
  BY <1>1 DEF FilesNext, allVars

(* The inductive invariant holds of every behaviour.                       *)
LEMMA FilesAlways == FilesSpec => []FilesInv
<1>1. FilesInit => FilesInv
  BY FilesStart, DatabaseOpeningAssumption
<1>2. FilesInv /\ [FilesNext]_allVars => FilesInv'
  BY FilesSteps, DatabaseOpeningAssumption, PlaintextMigrationAssumption
<1>3. QED
  BY <1>1, <1>2, PTL DEF FilesSpec

(* The source, its processes, the targets and the command keep to their    *)
(* types: every column of a file is filled in exactly when its table has   *)
(* it, at every stage of a migration and of an export.                     *)
THEOREM FilesTyped == FilesSpec => []FilesTypeOK
<1>1. FilesInv => FilesTypeOK
  BY ExportParts DEF FilesInv, ExportInv, OpeningInv
<1>2. QED
  BY <1>1, FilesAlways, PTL

(* Whoever has the file open, and however many others open it, migrate it, *)
(* fail or die meanwhile, finds this release's schema, references that     *)
(* hold, and a connection that enforces them; so does a server on a target *)
(* that a command left half copied.                                        *)
THEOREM ServedWhole == FilesSpec => []ServedFilesWhole
<1>1. FilesInv => ServedFilesWhole
  <2>1. ASSUME FilesInv
        PROVE  OpenMeansMigrated
    BY <2>1 DEF FilesInv, OpeningInv, ProcessInv, OpenMeansMigrated
  <2>2. ASSUME FilesInv, NEW t \in Target, targets[t] # Absent, targets[t].inUse
        PROVE  Migrated(targets[t].file) /\ ReferencesHold(targets[t].file)
    BY <2>2 DEF FilesInv, TargetsOK, TargetOK
  <2>3. QED
    BY <2>1, <2>2 DEF ServedFilesWhole
<1>2. QED
  BY <1>1, FilesAlways, PTL

(* A command that reports success has copied everything under its key,     *)
(* whatever earlier attempts left at this and other paths.                 *)
THEOREM ExportsComplete == FilesSpec => []ExportComplete
<1>1. FilesInv => ExportComplete
  <2>1. ASSUME FilesInv, exporter.at = "done"
        PROVE  exporter # NotRunning
    BY <2>1 DEF NotRunning
  <2>2. QED
    BY <2>1, Running DEF LeftByCommand, ExportComplete
<1>2. QED
  BY <1>1, FilesAlways, PTL

(* A database that a command finished or a server used is not written by   *)
(* any later attempt, except by opening it with its own key.               *)
THEOREM TargetsStay == FilesSpec => TargetsKept
<1>1. FilesInv /\ [FilesNext]_allVars => FinishedKept
  BY FilesSteps, DatabaseOpeningAssumption, PlaintextMigrationAssumption
<1>2. QED
  BY <1>1, FilesAlways, PTL DEF FilesSpec, TargetsKept

(* The migration of a file of any earlier release, of any size, keeps      *)
(* queues, messages, counts, keys and settings, and is idempotent.         *)
THEOREM MigrationsKeep == FilesSpec => MigrationKeeps
<1>1. FilesInv /\ [FilesNext]_allVars => [KeptByCommit]_vars
  BY SourceSteps, ProcessSteps, DatabaseOpeningAssumption DEF FilesInv
<1>2. QED
  BY <1>1, FilesAlways, PTL DEF FilesSpec, MigrationKeeps

(* Deduplication reaches across upgrades, deleted messages and changes of  *)
(* scope: no send is accepted that an earlier one suppresses.              *)
THEOREM SendsRespect == FilesSpec => SendsRespectHistory
<1>1. FilesInv /\ [FilesNext]_allVars => [Unsuppressed]_vars
  BY SourceSteps, ProcessSteps, DatabaseOpeningAssumption DEF FilesInv
<1>2. QED
  BY <1>1, FilesAlways, PTL DEF FilesSpec, SendsRespectHistory
=============================================================================
