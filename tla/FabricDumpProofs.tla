-------------------------- MODULE FabricDumpProofs ---------------------------
(***************************************************************************)
(* What parse_fabric_dump returns, for any replies of Redis: any fields,   *)
(* values, keys, and any number of them.  An empty value spoils its own    *)
(* hash and no other; where no value is empty, all are rebuilt.            *)
(***************************************************************************)
EXTENDS FabricDump, TLAPS

\* No line of a hash is one that the parser skips.
NoEmptyValue == BlankLine \notin Values

IsDict(d) == d = [x \in DOMAIN d |-> d[x]]

ScriptShape ==
    /\ at \in Sections \cup {"start"}
    /\ left \subseteq BlockNames
    /\ hash \in Hashes
    /\ unprinted \subseteq DOMAIN hash
    /\ half # None => half \in unprinted

ParserShape ==
    /\ section = at
    /\ current \in BlockNames \cup {None}
    /\ current # None => at \in BlockSections
    /\ maps = [s \in MapSections |-> maps[s]]
    /\ blocks = [s \in BlockSections |-> blocks[s]]

\* The buffer holds lines of the hash being printed and, if none of them is
\* skipped, exactly the pairs printed so far.
BufferInv ==
    /\ IsDict(pairs)
    /\ \A f \in DOMAIN pairs : f \in Lines(hash) /\ pairs[f] \in Lines(hash)
    /\ odd # None => odd \in Lines(hash)
    /\ Intact(hash) => /\ pairs = [f \in DOMAIN hash \ unprinted |-> hash[f]]
                       /\ odd = half

\* The maps: those to come are empty, the one being printed is not flushed
\* yet, the others rebuild what was read.
MapsInv ==
    /\ readMaps \in [MapSections -> Hashes]
    /\ \A s \in MapSections : s # at => Rebuilds(maps[s], readMaps[s])
    /\ at \in MapSections => readMaps[at] = hash
    /\ at \in {"start", "PORT_MAP"} => maps["PORT_MAP"] = Empty
    /\ at \in {"start", "PORT_MAP", "QUEUE_MAP"} => maps["QUEUE_MAP"] = Empty
    /\ at \in {"start", "PORT_MAP", "QUEUE_MAP", "PG_MAP"} => maps["PG_MAP"] = Empty

\* The block that is being printed.
Open(s) == IF s = at /\ current # None THEN {current} ELSE {}

\* The blocks rebuild what was read but for the one being printed, and
\* without one nothing is.
BlocksInv ==
    /\ readBlocks = [s \in BlockSections |-> readBlocks[s]]
    /\ \A s \in BlockSections :
         /\ IsDict(readBlocks[s]) /\ IsDict(blocks[s])
         /\ DOMAIN readBlocks[s] = DOMAIN blocks[s] \cup Open(s)
         /\ \A b \in DOMAIN readBlocks[s] : readBlocks[s][b] \in Hashes
         /\ \A b \in DOMAIN readBlocks[s] \ Open(s) :
              Rebuilds(blocks[s][b], readBlocks[s][b])
         /\ \A b \in Open(s) : readBlocks[s][b] = hash
    /\ at \notin MapSections /\ current = None => hash = Empty

DumpInv == ScriptShape /\ ParserShape /\ BufferInv /\ MapsInv /\ BlocksInv

-----------------------------------------------------------------------------
(* Lemmas: dicts. *)

(* Lemma: the empty dict is a hash without fields. *)
LEMMA EmptyHash == Empty \in Hashes /\ DOMAIN Empty = {}
<1>1. Empty \in [{} -> Values]
  BY DEF Empty
<1> QED  BY <1>1 DEF Hashes, Empty

(* Lemma: a hash is a function on its fields. *)
LEMMA HashIsFunction ==
  ASSUME NEW h \in Hashes
  PROVE  /\ h = [f \in DOMAIN h |-> h[f]]
         /\ DOMAIN h \subseteq Fields
         /\ \A f \in DOMAIN h : h[f] \in Values
BY DEF Hashes

(* Lemma: flushing a buffer into an empty map gives the buffer. *)
LEMMA UpdateEmpty == ASSUME NEW d, IsDict(d) PROVE Update(Empty, d) = d
<1>1. DOMAIN Empty \cup DOMAIN d = DOMAIN d
  BY EmptyHash
<1>2. Update(Empty, d) = [x \in DOMAIN d |-> d[x]]
  BY <1>1 DEF Update
<1> QED  BY <1>2 DEF IsDict

(* Lemma: the empty dict rebuilds the empty hash. *)
LEMMA EmptyRebuilt == Rebuilds(Empty, Empty) /\ IsDict(Empty)
BY EmptyHash DEF Rebuilds, Empty, IsDict

-----------------------------------------------------------------------------

(* Lemma: the invariant holds before the first line. *)
LEMMA DumpInit == Init => DumpInv
<1> SUFFICES ASSUME Init PROVE DumpInv
  OBVIOUS
<1>1. ScriptShape
  BY EmptyHash DEF Init, ScriptShape
<1>2. ParserShape
  BY DEF Init, ParserShape
<1>3. BufferInv
  <2>1. pairs = [f \in DOMAIN hash \ unprinted |-> hash[f]]
    BY EmptyHash DEF Init, Empty
  <2> QED  BY <2>1, EmptyHash, EmptyRebuilt DEF Init, BufferInv
<1>4. MapsInv
  BY EmptyHash, EmptyRebuilt DEF Init, MapsInv, MapSections
<1>5. BlocksInv
  <2>1. Open("PORT_OPER") = {} /\ Open("OIDS_BEGIN") = {}
    BY DEF Init, Open
  <2> QED  BY <2>1, EmptyHash, EmptyRebuilt DEF Init, BlocksInv, BlockSections
<1> QED  BY <1>1, <1>2, <1>3, <1>4, <1>5 DEF DumpInv

(* Lemma: once a hash is printed, the buffer rebuilds it.                    *)
LEMMA PrintedRebuilds ==
  ASSUME DumpInv, Printed
  PROVE  Rebuilds(pairs, hash) /\ IsDict(pairs)
BY HashIsFunction DEF DumpInv, BufferInv, ScriptShape, Printed, Rebuilds

\* The results rebuild what was read, and the buffer is empty.
Flushed ==
    /\ maps' = [s \in MapSections |-> maps'[s]]
    /\ \A s \in MapSections : Rebuilds(maps'[s], readMaps[s])
    /\ \A s \in MapSections : s # at => maps'[s] = maps[s]
    /\ blocks' = [s \in BlockSections |-> blocks'[s]]
    /\ \A s \in BlockSections :
         /\ IsDict(blocks'[s])
         /\ DOMAIN blocks'[s] = DOMAIN readBlocks[s]
         /\ \A b \in DOMAIN readBlocks[s] : Rebuilds(blocks'[s][b], readBlocks[s][b])
    /\ pairs' = Empty /\ odd' = None

(* Lemma: without a block open, the blocks rebuild what was read.            *)
LEMMA ClosedBlocks ==
  ASSUME DumpInv, NEW s \in BlockSections, Open(s) = {}
  PROVE  /\ IsDict(blocks[s])
         /\ DOMAIN blocks[s] = DOMAIN readBlocks[s]
         /\ \A b \in DOMAIN readBlocks[s] : Rebuilds(blocks[s][b], readBlocks[s][b])
BY DEF DumpInv, BlocksInv

(* Lemma: flushing the buffer when the hash is printed makes the results     *)
(* rebuild what was read, and leaves nothing of the hash, blank or not.      *)
LEMMA FlushPrinted == ASSUME DumpInv, Printed, Flush PROVE Flushed
<1>1. Rebuilds(pairs, hash) /\ IsDict(pairs)
  BY PrintedRebuilds
<1>2. section = at
  BY DEF DumpInv, ParserShape
<1>3. MapSections \cap BlockSections = {}
  BY DEF MapSections, BlockSections
<1>4. CASE FlushMap
  <2>1. maps[at] = Empty /\ readMaps[at] = hash
    BY <1>2, <1>4 DEF FlushMap, DumpInv, MapsInv, MapSections
  <2>2. maps' = [maps EXCEPT ![at] = pairs]
    BY <1>1, <1>2, <1>4, <2>1, UpdateEmpty DEF FlushMap
  <2>3. /\ maps' = [s \in MapSections |-> maps'[s]]
        /\ \A s \in MapSections : Rebuilds(maps'[s], readMaps[s])
        /\ \A s \in MapSections : s # at => maps'[s] = maps[s]
    BY <1>1, <1>2, <1>4, <2>1, <2>2 DEF FlushMap, DumpInv, MapsInv, ParserShape
  <2>4. \A s \in BlockSections : Open(s) = {}
    BY <1>2, <1>3, <1>4 DEF FlushMap, Open
  <2> QED
    BY <1>4, <2>3, <2>4, ClosedBlocks DEF FlushMap, Flushed, DumpInv, ParserShape
<1>5. ASSUME section \notin MapSections
      PROVE  \A s \in MapSections : Rebuilds(maps[s], readMaps[s])
  BY <1>2, <1>5 DEF DumpInv, MapsInv
<1>6. CASE FlushBlock
  <2>1. /\ maps' = maps /\ at \in BlockSections /\ current # None
        /\ blocks' = [blocks EXCEPT ![at] = Put(blocks[at], current, pairs)]
        /\ pairs' = Empty /\ odd' = None
    BY <1>2, <1>6 DEF FlushBlock
  <2>2. \A s \in MapSections : Rebuilds(maps'[s], readMaps[s])
    BY <1>2, <1>3, <1>5, <2>1
  <2>3. /\ blocks' = [s \in BlockSections |-> blocks'[s]]
        /\ blocks'[at] = Put(blocks[at], current, pairs)
        /\ \A s \in BlockSections : s # at => blocks'[s] = blocks[s]
    BY <2>1 DEF DumpInv, ParserShape
  <2>4. ASSUME NEW s \in BlockSections
        PROVE  /\ IsDict(blocks'[s])
               /\ DOMAIN blocks'[s] = DOMAIN readBlocks[s]
               /\ \A b \in DOMAIN readBlocks[s] : Rebuilds(blocks'[s][b], readBlocks[s][b])
    <3>1. CASE s # at
      <4>1. Open(s) = {}
        BY <3>1 DEF Open
      <4> QED  BY <2>3, <3>1, <4>1, ClosedBlocks
    <3>2. CASE s = at
      <4>1. Open(s) = {current}
        BY <2>1, <3>2 DEF Open
      <4>2. /\ DOMAIN readBlocks[s] = DOMAIN blocks[s] \cup {current}
            /\ readBlocks[s][current] = hash
            /\ \A b \in DOMAIN readBlocks[s] \ {current} :
                 Rebuilds(blocks[s][b], readBlocks[s][b])
        BY <4>1 DEF DumpInv, BlocksInv
      <4>3. /\ IsDict(blocks'[s])
            /\ DOMAIN blocks'[s] = DOMAIN blocks[s] \cup {current}
            /\ blocks'[s][current] = pairs
            /\ \A b \in DOMAIN blocks[s] : b # current => blocks'[s][b] = blocks[s][b]
        BY <2>3, <3>2 DEF Put, IsDict
      <4> QED  BY <1>1, <4>2, <4>3
    <3> QED  BY <3>1, <3>2
  <2>5. maps' = [s \in MapSections |-> maps'[s]]
    BY <2>1 DEF DumpInv, ParserShape
  <2> QED  BY <2>1, <2>2, <2>3, <2>4, <2>5 DEF Flushed
<1>7. CASE FlushNothing
  <2>1. current = None
    BY <1>2, <1>7 DEF FlushNothing, DumpInv, ParserShape
  <2>2. hash = Empty
    BY <1>2, <1>7, <2>1 DEF FlushNothing, DumpInv, BlocksInv
  <2>3. pairs = Empty /\ odd = None
    BY <1>1, <2>2, EmptyHash
       DEF Rebuilds, Intact, DumpInv, BufferInv, Printed
  <2>4. \A s \in BlockSections : Open(s) = {}
    BY <2>1 DEF Open
  <2> QED
    BY <1>5, <1>7, <2>3, <2>4, ClosedBlocks
       DEF FlushNothing, Flushed, DumpInv, ParserShape
<1> QED  BY <1>4, <1>6, <1>7 DEF Flush

(* Lemma: a new reply is unprinted, so an empty buffer is all there is of it. *)
LEMMA NewReply ==
  ASSUME NEW h \in Hashes, Hgetall(h), pairs' = Empty, odd' = None, half' = None
  PROVE  /\ hash' = h /\ hash' \in Hashes /\ unprinted' \subseteq DOMAIN hash'
         /\ BufferInv'
<1>1. hash' = h /\ unprinted' = DOMAIN hash'
  BY DEF Hgetall
<1>2. [f \in {} |-> hash'[f]] = Empty
  BY DEF Empty
<1>3. DOMAIN pairs' = {} /\ IsDict(pairs')
  BY EmptyHash, EmptyRebuilt
<1> QED  BY <1>1, <1>2, <1>3 DEF BufferInv

(* Lemma: the marker of a name map keeps it. *)
LEMMA DumpMapStep ==
  ASSUME DumpInv, NEW name \in MapSections, NEW h \in Hashes, DumpMap(name, h)
  PROVE  DumpInv'
<1>1. /\ half' = None /\ at' = name /\ section' = name /\ current' = None
      /\ readMaps' = [readMaps EXCEPT ![name] = h] /\ readBlocks' = readBlocks
      /\ left' = left /\ Hgetall(h) /\ Follows(name)
  BY DEF DumpMap, OnSection, Printed
<1>2. Flushed
  BY FlushPrinted DEF DumpMap, OnSection
<1>3. hash' = h /\ hash' \in Hashes /\ unprinted' \subseteq DOMAIN hash' /\ BufferInv'
  BY <1>1, <1>2, NewReply DEF Flushed
<1>4. ScriptShape'
  BY <1>1, <1>3 DEF DumpInv, ScriptShape, Sections
<1>5. ParserShape'
  BY <1>1, <1>2 DEF ParserShape, Flushed
<1>6. MapsInv'
  <2>1. readMaps' \in [MapSections -> Hashes] /\ readMaps'[name] = hash'
    BY <1>1, <1>3 DEF DumpInv, MapsInv
  <2>2. \A u \in MapSections : u # name => Rebuilds(maps'[u], readMaps'[u])
    BY <1>1, <1>2 DEF Flushed, DumpInv, MapsInv
  <2>3. at \in {"start", "PORT_MAP", "QUEUE_MAP"}
        /\ (name = "PORT_MAP" => at = "start")
        /\ (name = "QUEUE_MAP" => at = "PORT_MAP")
        /\ (name = "PG_MAP" => at = "QUEUE_MAP")
    BY <1>1 DEF Follows, MapSections
  <2>4. /\ name = "PORT_MAP" => maps'["PORT_MAP"] = Empty
        /\ name \in {"PORT_MAP", "QUEUE_MAP"} => maps'["QUEUE_MAP"] = Empty
        /\ maps'["PG_MAP"] = Empty
    BY <1>2, <2>3 DEF Flushed, DumpInv, MapsInv, MapSections
  <2> QED  BY <1>1, <2>1, <2>2, <2>4 DEF MapsInv, MapSections
<1>7. BlocksInv'
  <2>1. \A s \in BlockSections : Open(s)' = {}
    BY <1>1 DEF Open
  <2>2. at' \in MapSections
    BY <1>1
  <2> QED  BY <1>1, <1>2, <2>1, <2>2 DEF DumpInv, BlocksInv, Flushed
<1> QED  BY <1>3, <1>4, <1>5, <1>6, <1>7 DEF DumpInv

(* Lemma: so does the marker of a section of blocks. *)
LEMMA ListBlocksStep ==
  ASSUME DumpInv, NEW name, NEW keys,
         \/ /\ name \in BlockSections /\ keys \in SUBSET BlockNames
            /\ ListBlocks(name, keys)
         \/ name = "OIDS_END" /\ keys = {} /\ EndDump
  PROVE  DumpInv'
<1>1. /\ half' = None /\ at' = name /\ section' = name /\ current' = None
      /\ readMaps' = readMaps /\ readBlocks' = readBlocks
      /\ left' \subseteq BlockNames /\ Hgetall(Empty)
  BY DEF ListBlocks, EndDump, OnSection, Printed, readVars
<1>2. Flushed
  BY FlushPrinted DEF ListBlocks, EndDump, OnSection
<1>3. hash' = Empty /\ unprinted' \subseteq DOMAIN hash' /\ BufferInv'
  BY <1>1, <1>2, NewReply, EmptyHash DEF Flushed
<1>4. ScriptShape'
  BY <1>1, <1>3, EmptyHash DEF ScriptShape, Sections, BlockSections
<1>5. ParserShape'
  BY <1>1, <1>2 DEF ParserShape, Flushed
<1>6. MapsInv'
  BY <1>1, <1>2 DEF Flushed, DumpInv, MapsInv, MapSections, BlockSections
<1>7. BlocksInv'
  <2>1. \A s \in BlockSections : Open(s)' = {}
    BY <1>1 DEF Open
  <2> QED  BY <1>1, <1>2, <1>3, <2>1 DEF DumpInv, BlocksInv, Flushed
<1> QED  BY <1>3, <1>4, <1>5, <1>6, <1>7 DEF DumpInv

(* Lemma: so does the marker of a block, a repeated one included. *)
LEMMA DumpBlockStep ==
  ASSUME DumpInv, NEW name \in BlockNames, NEW h \in Hashes, DumpBlock(name, h)
  PROVE  DumpInv'
<1>1. at \in BlockSections /\ section = at
  BY DEF DumpBlock, OnBlock, DumpInv, ParserShape
<1>2. Flushed
  BY FlushPrinted DEF DumpBlock, OnBlock, Flush
<1>3. /\ half' = None /\ at' = at /\ section' = at /\ current' = name
      /\ readMaps' = readMaps
      /\ readBlocks' = [readBlocks EXCEPT ![at] = Put(readBlocks[at], name, h)]
      /\ left' \subseteq left /\ Hgetall(h)
  BY <1>1 DEF DumpBlock, OnBlock, Printed
<1>4. hash' = h /\ hash' \in Hashes /\ unprinted' \subseteq DOMAIN hash' /\ BufferInv'
  BY <1>2, <1>3, NewReply DEF Flushed
<1>5. ScriptShape'
  BY <1>3, <1>4 DEF DumpInv, ScriptShape
<1>6. ParserShape'
  BY <1>1, <1>2, <1>3 DEF ParserShape, Flushed
<1>7. MapsInv'
  BY <1>1, <1>2, <1>3 DEF Flushed, DumpInv, MapsInv, MapSections, BlockSections
<1>8. BlocksInv'
  <2>1. Open(at)' = {name} /\ \A s \in BlockSections : s # at => Open(s)' = {}
    BY <1>3, DumpAssumption DEF Open
  <2>2. /\ readBlocks' = [s \in BlockSections |-> readBlocks'[s]]
        /\ readBlocks'[at] = Put(readBlocks[at], name, h)
        /\ \A s \in BlockSections : s # at => readBlocks'[s] = readBlocks[s]
    BY <1>1, <1>3 DEF DumpInv, BlocksInv
  <2>3. /\ IsDict(readBlocks'[at])
        /\ DOMAIN readBlocks'[at] = DOMAIN readBlocks[at] \cup {name}
        /\ readBlocks'[at][name] = h
        /\ \A b \in DOMAIN readBlocks[at] : b # name => readBlocks'[at][b] = readBlocks[at][b]
    BY <2>2 DEF Put, IsDict
  <2>4. \A s \in BlockSections :
          /\ IsDict(readBlocks'[s])
          /\ \A b \in DOMAIN readBlocks'[s] : readBlocks'[s][b] \in Hashes
    BY <2>2, <2>3 DEF DumpInv, BlocksInv
  <2>5. \A s \in BlockSections : IsDict(blocks'[s])
    BY <1>2 DEF Flushed
  <2>6. ASSUME NEW s \in BlockSections
        PROVE  /\ DOMAIN readBlocks'[s] = DOMAIN blocks'[s] \cup Open(s)'
               /\ \A b \in DOMAIN readBlocks'[s] \ Open(s)' :
                    Rebuilds(blocks'[s][b], readBlocks'[s][b])
               /\ \A b \in Open(s)' : readBlocks'[s][b] = hash'
    <3>1. /\ DOMAIN blocks'[s] = DOMAIN readBlocks[s]
          /\ \A b \in DOMAIN readBlocks[s] : Rebuilds(blocks'[s][b], readBlocks[s][b])
      BY <1>2 DEF Flushed
    <3>2. CASE s # at
      BY <2>1, <2>2, <3>1, <3>2
    <3>3. CASE s = at
      <4>1. Open(s)' = {name}
        BY <1>3, <3>3, DumpAssumption DEF Open
      <4> QED  BY <1>4, <2>3, <3>1, <3>3, <4>1
    <3> QED  BY <3>2, <3>3
  <2> QED  BY <1>3, <2>2, <2>4, <2>5, <2>6, DumpAssumption DEF BlocksInv
<1> QED  BY <1>4, <1>5, <1>6, <1>7, <1>8 DEF DumpInv

(* Lemma: while a pair is being printed a map or a block is open.            *)
LEMMA OpenWhilePrinting ==
  ASSUME DumpInv, unprinted # {}
  PROVE  section \in MapSections \/ (section \in BlockSections /\ current # None)
BY EmptyHash DEF DumpInv, ScriptShape, ParserShape, BlocksInv

(* Lemma: a step that changes the buffer and what is printed, and keeps      *)
(* those consistent, keeps the invariant.                                    *)
LEMMA OnlyBuffer ==
  ASSUME DumpInv, ScriptShape', BufferInv',
         UNCHANGED <<at, hash, section, current, maps, blocks, readMaps, readBlocks>>
  PROVE  DumpInv'
BY DEF DumpInv, ParserShape, MapsInv, BlocksInv, Open

(* Lemma: a line that is not skipped is put into the buffer; whatever the    *)
(* buffer makes of it, it holds lines of the hash.                           *)
LEMMA TextBuffered ==
  ASSUME DumpInv, unprinted # {}, NEW line \in Lines(hash), OnText(line), hash' = hash
  PROVE  /\ IsDict(pairs')
         /\ \A f \in DOMAIN pairs' : f \in Lines(hash') /\ pairs'[f] \in Lines(hash')
         /\ odd' # None => odd' \in Lines(hash')
         /\ line # BlankLine /\ odd = None => odd' = line /\ pairs' = pairs
         /\ line # BlankLine /\ odd # None => odd' = None /\ pairs' = Put(pairs, odd, line)
<1>1. section \in MapSections \/ (section \in BlockSections /\ current # None)
  BY OpenWhilePrinting
<1>2. /\ IsDict(pairs)
      /\ \A f \in DOMAIN pairs : f \in Lines(hash) /\ pairs[f] \in Lines(hash)
      /\ odd # None => odd \in Lines(hash)
  BY DEF DumpInv, BufferInv
<1>3. CASE line = BlankLine
  BY <1>2, <1>3 DEF OnText
<1>4. CASE line # BlankLine /\ odd = None
  BY <1>1, <1>2, <1>4 DEF OnText
<1>5. CASE line # BlankLine /\ odd # None
  <2>1. odd' = None /\ pairs' = Put(pairs, odd, line)
    BY <1>1, <1>5 DEF OnText
  <2> QED  BY <1>2, <1>5, <2>1 DEF Put, IsDict
<1> QED  BY <1>3, <1>4, <1>5

(* Lemma: so does a field's line. *)
LEMMA PrintFieldStep ==
  ASSUME DumpInv, NEW f \in Fields, PrintField(f)
  PROVE  DumpInv'
<1>1. f # BlankLine /\ f # None
  BY DumpAssumption
<1>2. /\ half = None /\ f \in unprinted /\ half' = f /\ OnText(f)
      /\ UNCHANGED <<at, left, hash, unprinted, readMaps, readBlocks>>
      /\ UNCHANGED <<section, current, maps, blocks>>
  BY DEF PrintField, readVars, OnText
<1>3. f \in Lines(hash)
  BY <1>2 DEF DumpInv, ScriptShape, Lines
<1>4. ScriptShape'
  BY <1>2 DEF DumpInv, ScriptShape
<1>5. BufferInv'
  <2>1. Intact(hash) => odd = None /\ pairs = [x \in DOMAIN hash \ unprinted |-> hash[x]]
    BY <1>2 DEF DumpInv, BufferInv
  <2> QED  BY <1>1, <1>2, <1>3, <2>1, TextBuffered DEF BufferInv, Intact
<1> QED  BY <1>2, <1>4, <1>5, OnlyBuffer

(* Lemma: so does a value's line, blank or not. *)
LEMMA PrintValueStep == ASSUME DumpInv, PrintValue PROVE DumpInv'
<1>1. /\ half # None /\ half' = None /\ unprinted' = unprinted \ {half}
      /\ OnText(hash[half])
      /\ UNCHANGED <<at, left, hash, readMaps, readBlocks>>
      /\ UNCHANGED <<section, current, maps, blocks>>
  BY DEF PrintValue, readVars, OnText
<1>2. half \in unprinted /\ half \in DOMAIN hash /\ hash[half] \in Lines(hash)
  BY <1>1 DEF DumpInv, ScriptShape, Lines
<1>3. ScriptShape'
  BY <1>1 DEF DumpInv, ScriptShape
<1>4. ASSUME Intact(hash)
      PROVE  odd' = None /\ pairs' = [f \in DOMAIN hash \ unprinted' |-> hash[f]]
  <2>1. odd = half /\ pairs = [f \in DOMAIN hash \ unprinted |-> hash[f]]
    BY <1>4 DEF DumpInv, BufferInv
  <2>2. hash[half] # BlankLine
    BY <1>2, <1>4 DEF Intact
  <2>3. odd' = None /\ pairs' = Put(pairs, half, hash[half])
    BY <1>1, <1>2, <2>1, <2>2, TextBuffered
  <2>4. (DOMAIN hash \ unprinted) \cup {half} = DOMAIN hash \ unprinted'
    BY <1>1, <1>2
  <2> QED  BY <2>1, <2>3, <2>4 DEF Put
<1>5. BufferInv'
  BY <1>1, <1>2, <1>4, TextBuffered DEF BufferInv, Intact
<1> QED  BY <1>1, <1>3, <1>5, OnlyBuffer

(* Lemma: every step keeps the invariant. *)
LEMMA DumpStep == ASSUME DumpInv, [Next]_vars PROVE DumpInv'
<1>1. CASE UNCHANGED vars
  BY <1>1 DEF vars, DumpInv, ScriptShape, ParserShape, BufferInv, MapsInv, BlocksInv, Open
<1>2. CASE EndDump
  BY <1>2, ListBlocksStep
<1>3. ASSUME NEW name \in BlockSections, NEW keys \in SUBSET BlockNames,
             ListBlocks(name, keys)
      PROVE  DumpInv'
  BY <1>3, ListBlocksStep
<1>4. ASSUME NEW name \in MapSections, NEW h \in Hashes, DumpMap(name, h)
      PROVE  DumpInv'
  BY <1>4, DumpMapStep
<1>5. ASSUME NEW name \in BlockNames, NEW h \in Hashes, DumpBlock(name, h)
      PROVE  DumpInv'
  BY <1>5, DumpBlockStep
<1>6. ASSUME NEW f \in Fields, PrintField(f)
      PROVE  DumpInv'
  BY <1>6, PrintFieldStep
<1>7. CASE PrintValue
  BY <1>7, PrintValueStep
<1> QED  BY <1>1, <1>2, <1>3, <1>4, <1>5, <1>6, <1>7 DEF Next

(* Theorem: at every line, what is closed rebuilds what was read, and the    *)
(* buffer holds lines of the hash being printed only.                        *)
THEOREM DumpInvariant == Spec => []DumpInv
<1>1. DumpInv /\ [Next]_vars => DumpInv'
  BY DumpStep
<1> QED  BY <1>1, DumpInit, PTL DEF Spec

(* Lemma: at the end no hash is open. *)
LEMMA EndContained == DumpInv => DamageContained
<1> SUFFICES ASSUME DumpInv, at = "OIDS_END"
             PROVE  /\ \A s \in MapSections : Rebuilds(maps[s], readMaps[s])
                    /\ \A s \in BlockSections :
                         /\ DOMAIN blocks[s] = DOMAIN readBlocks[s]
                         /\ \A b \in DOMAIN blocks[s] : Rebuilds(blocks[s][b], readBlocks[s][b])
  BY DEF DamageContained
<1>1. at \notin MapSections /\ at \notin BlockSections
  BY DEF MapSections, BlockSections
<1>2. \A s \in BlockSections : Open(s) = {}
  BY <1>1 DEF Open
<1> QED  BY <1>1, <1>2, ClosedBlocks DEF DumpInv, MapsInv

(* Theorem: whatever values are empty, each spoils its own hash at most.     *)
THEOREM DamageIsLocal == Spec => []DamageContained
BY EndContained, DumpInvariant, PTL

(* Lemma: where no value is empty, every hash that was read is intact. *)
LEMMA AllIntact == ASSUME NoEmptyValue, NEW h \in Hashes PROVE Intact(h)
BY HashIsFunction DEF NoEmptyValue, Intact

(* Theorem: parse_fabric_dump returns what the script read, if no value is   *)
(* empty.                                                                    *)
THEOREM DumpRoundTrips == ASSUME NoEmptyValue PROVE Spec => []RoundTrip
<1>1. DumpInv => RoundTrip
  <2> SUFFICES ASSUME DumpInv, at = "OIDS_END" PROVE maps = readMaps /\ blocks = readBlocks
    BY DEF RoundTrip
  <2>1. DamageContained
    BY EndContained
  <2>2. \A s \in MapSections : maps[s] = readMaps[s]
    <3>1. \A s \in MapSections : readMaps[s] \in Hashes
      BY DEF DumpInv, MapsInv
    <3> QED  BY <2>1, <3>1, AllIntact DEF DamageContained, Rebuilds
  <2>3. maps = readMaps
    BY <2>2 DEF DumpInv, ParserShape, MapsInv
  <2>4. ASSUME NEW s \in BlockSections PROVE blocks[s] = readBlocks[s]
    <3>1. DOMAIN blocks[s] = DOMAIN readBlocks[s]
      BY <2>1 DEF DamageContained
    <3>2. \A b \in DOMAIN readBlocks[s] : blocks[s][b] = readBlocks[s][b]
      <4>1. \A b \in DOMAIN readBlocks[s] : readBlocks[s][b] \in Hashes
        BY DEF DumpInv, BlocksInv
      <4> QED  BY <2>1, <3>1, <4>1, AllIntact DEF DamageContained, Rebuilds
    <3>3. IsDict(blocks[s]) /\ IsDict(readBlocks[s])
      BY DEF DumpInv, BlocksInv
    <3> QED  BY <3>1, <3>2, <3>3 DEF IsDict
  <2>5. blocks = readBlocks
    BY <2>4 DEF DumpInv, ParserShape, BlocksInv
  <2> QED  BY <2>3, <2>5
<1> QED  BY <1>1, DumpInvariant, PTL

(* Theorem: nothing is carried from one hash into the next.                  *)
THEOREM NothingCarries == Spec => []NothingCarriedOver
<1>1. DumpInv => NothingCarriedOver
  <2> SUFFICES ASSUME DumpInv PROVE NothingCarriedOver
    OBVIOUS
  <2>1. ASSUME NEW u \in BlockSections, NEW b \in DOMAIN readBlocks[u],
               <<u, b>> # <<at, current>>
        PROVE  b \in DOMAIN blocks[u] /\ Rebuilds(blocks[u][b], readBlocks[u][b])
    <3>1. b \notin Open(u)
      BY <2>1 DEF Open
    <3> QED  BY <3>1 DEF DumpInv, BlocksInv
  <2> QED  BY <2>1 DEF DumpInv, BufferInv, MapsInv, NothingCarriedOver
<1> QED  BY <1>1, DumpInvariant, PTL
=============================================================================
