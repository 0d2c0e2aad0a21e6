----------------------------- MODULE FabricDump ------------------------------
(***************************************************************************)
(* The on-switch dump script of driver/counters.py and the state machine   *)
(* that parses its output, parse_fabric_dump.  The script echoes section   *)
(* and block markers and prints one Redis hash after another, a field line *)
(* and a value line for each pair; the parser has to put the hashes        *)
(* together again.  Redis goes on changing while the script runs, so each  *)
(* hgetall and each key listing returns anything.                          *)
(*                                                                         *)
(* The parser only folds over the lines, so it is run here line by line as *)
(* the script prints them.  A line is its class and what the markers'      *)
(* regular expressions extract from it; rstrip makes a value of white      *)
(* space a blank line.                                                     *)
(*                                                                         *)
(* An operator Fault... is not part of the model: it is a definition as a  *)
(* plausible bug would have it, for checking that the properties notice.   *)
(***************************************************************************)
EXTENDS Naturals

CONSTANTS
    Fields,      \* hash fields: aliases, oper_status, SAI_PORT_STAT_...
    Values,      \* hash values as printed, BlankLine for an empty one
    BlankLine,   \* the empty line
    BlockNames,  \* ports in PORT_OPER, object ids in OIDS
    MaxRepeats,  \* bound: how often --scan repeats a key it has returned
    None         \* Python's None

ASSUME DumpAssumption ==
    /\ None \notin Fields \cup BlockNames
    /\ BlankLine \notin Fields
    /\ MaxRepeats \in Nat

MapSections == {"PORT_MAP", "QUEUE_MAP", "PG_MAP"}
BlockSections == {"PORT_OPER", "OIDS_BEGIN"}
Sections == MapSections \cup BlockSections \cup {"OIDS_END"}

VARIABLES
    (* the script *)
    at,         \* the section it has echoed last
    left,       \* the blocks its loop has still to print
    hash,       \* the reply it is printing
    unprinted,  \* the fields of hash whose pairs are not printed yet
    half,       \* the field whose value line is due, or None
    repeats,    \* keys that --scan has repeated
    (* the parser *)
    section,    \* section
    current,    \* current_key or current_oid, whichever the section uses
    pairs,      \* the pairs in buf
    odd,        \* the line in buf that has no partner yet, or None
    maps,       \* port_map, queue_map, pg_map
    blocks,     \* port_oper, oids
    (* for the properties *)
    readMaps,   \* what the script read of the name maps
    readBlocks  \* what it read of the blocks, the last reply for each

scriptVars == <<at, left, hash, unprinted, half, repeats>>
parserVars == <<section, current, pairs, odd, maps, blocks>>
readVars == <<readMaps, readBlocks>>
vars == <<at, left, hash, unprinted, half, repeats,
          section, current, pairs, odd, maps, blocks, readMaps, readBlocks>>

\* A Python dict is a function on its keys.
Empty == [k \in {} |-> None]
Put(d, k, v) == [x \in DOMAIN d \cup {k} |-> IF x = k THEN v ELSE d[x]]
Update(d, e) ==
    [x \in DOMAIN d \cup DOMAIN e |-> IF x \in DOMAIN e THEN e[x] ELSE d[x]]

Hashes == UNION {[F -> Values] : F \in SUBSET Fields}

Init ==
    /\ at = "start" /\ left = {} /\ hash = Empty /\ unprinted = {} /\ half = None
    /\ repeats = 0
    /\ section = "start" /\ current = None /\ pairs = Empty /\ odd = None
    /\ maps = [s \in MapSections |-> Empty]
    /\ blocks = [s \in BlockSections |-> Empty]
    /\ readMaps = [s \in MapSections |-> Empty]
    /\ readBlocks = [s \in BlockSections |-> Empty]

-----------------------------------------------------------------------------
(* The parser, on one line. *)

\* flush_alternating into a name map, or into a fresh dict for the block; a
\* line without a partner is dropped.
FlushMap ==
    /\ section \in MapSections
    /\ maps' = [maps EXCEPT ![section] = Update(@, pairs)]
    /\ pairs' = Empty /\ odd' = None
    /\ UNCHANGED blocks

\* Fault: the pairs are taken from the buffer, a line without partner stays.
FaultKeepsOddLine ==
    /\ section \in BlockSections /\ current # None
    /\ blocks' = [blocks EXCEPT ![section] = Put(@, current, pairs)]
    /\ pairs' = Empty
    /\ UNCHANGED <<maps, odd>>

FlushBlock ==
    /\ section \in BlockSections /\ current # None
    /\ blocks' = [blocks EXCEPT ![section] = Put(@, current, pairs)]
    /\ pairs' = Empty /\ odd' = None
    /\ UNCHANGED maps

FlushNothing ==
    /\ section \notin MapSections
    /\ section \in BlockSections => current = None
    /\ UNCHANGED <<maps, blocks, pairs, odd>>

Flush == FlushMap \/ FlushBlock \/ FlushNothing

\* Fault: only the next block's marker closes a block.
FaultLosesLast(name) ==
    /\ FlushMap \/ (section \notin MapSections /\ pairs' = Empty /\ odd' = None
                     /\ UNCHANGED <<maps, blocks>>)
    /\ section' = name
    /\ current' = None

OnSection(name) ==
    /\ Flush
    /\ section' = name
    /\ current' = None

OnBlock(name) ==
    /\ section \in BlockSections
    /\ FlushBlock \/ FlushNothing
    /\ current' = name
    /\ UNCHANGED section

\* A line of a hash.  Blank lines are skipped, so are lines of no block.
OnText(line) ==
    /\ IF line # BlankLine
          /\ (section \in MapSections \/ (section \in BlockSections /\ current # None))
         THEN IF odd = None
                THEN odd' = line /\ UNCHANGED pairs
                ELSE pairs' = Put(pairs, odd, line) /\ odd' = None
         ELSE UNCHANGED <<pairs, odd>>
    /\ UNCHANGED <<section, current, maps, blocks>>

-----------------------------------------------------------------------------
(* The script, one line at a time. *)

\* The section after at.
Follows(name) ==
    <<at, name>> \in {<<"start", "PORT_MAP">>, <<"PORT_MAP", "QUEUE_MAP">>,
                      <<"QUEUE_MAP", "PG_MAP">>, <<"PG_MAP", "PORT_OPER">>,
                      <<"PORT_OPER", "OIDS_BEGIN">>, <<"OIDS_BEGIN", "OIDS_END">>}

\* The last reply is printed.
Printed == unprinted = {} /\ half = None

\* hgetall replies with h; a redis-cli that fails prints nothing either, and
\* the script goes on.
Hgetall(h) == hash' = h /\ unprinted' = DOMAIN h

\* echo '===PORT_MAP===' and its like, and the hgetall that follows.
DumpMap(name, h) ==
    /\ Printed /\ Follows(name)
    /\ name \in MapSections
    /\ at' = name
    /\ Hgetall(h)
    /\ readMaps' = [readMaps EXCEPT ![name] = h]
    /\ OnSection(name)
    /\ UNCHANGED <<left, half, repeats, readBlocks>>

\* echo '===PORT_OPER===' or '===OIDS_BEGIN===', and the listing of the keys.
ListBlocks(name, keys) ==
    /\ Printed /\ left = {} /\ Follows(name)
    /\ name \in BlockSections
    /\ at' = name
    /\ left' = keys
    /\ Hgetall(Empty)
    /\ OnSection(name)
    /\ UNCHANGED <<half, repeats, readVars>>

\* One turn of the loop over the keys.  KEYS lists a key once; SCAN may
\* return it again.
DumpBlock(name, h) ==
    /\ Printed /\ name \in left
    /\ \/ left' = left \ {name} /\ UNCHANGED repeats
       \/ /\ at = "OIDS_BEGIN" /\ repeats < MaxRepeats
          /\ repeats' = repeats + 1 /\ UNCHANGED left
    /\ Hgetall(h)
    /\ readBlocks' = [readBlocks EXCEPT ![at] = Put(@, name, h)]
    /\ OnBlock(name)
    /\ UNCHANGED <<at, half, readMaps>>

PrintField(f) ==
    /\ half = None /\ f \in unprinted
    /\ half' = f
    /\ OnText(f)
    /\ UNCHANGED <<at, left, hash, unprinted, repeats, readVars>>

PrintValue ==
    /\ half # None
    /\ unprinted' = unprinted \ {half}
    /\ half' = None
    /\ OnText(hash[half])
    /\ UNCHANGED <<at, left, hash, repeats, readVars>>

\* echo '===OIDS_END===': the dump ends, and parse_fabric_dump's last flush
\* finds no block open.
EndDump ==
    /\ Printed /\ left = {} /\ Follows("OIDS_END")
    /\ at' = "OIDS_END"
    /\ Hgetall(Empty)
    /\ OnSection("OIDS_END")
    /\ UNCHANGED <<left, half, repeats, readVars>>

Next ==
    \/ \E name \in MapSections, h \in Hashes : DumpMap(name, h)
    \/ \E name \in BlockSections, keys \in SUBSET BlockNames : ListBlocks(name, keys)
    \/ \E name \in BlockNames, h \in Hashes : DumpBlock(name, h)
    \/ \E f \in Fields : PrintField(f)
    \/ PrintValue
    \/ EndDump

Spec == Init /\ [][Next]_vars

-----------------------------------------------------------------------------
\* The parser skips no line of this hash.
Intact(h) == \A f \in DOMAIN h : h[f] # BlankLine

Lines(h) == DOMAIN h \cup {h[f] : f \in DOMAIN h}

\* d is h or, if a line of h was skipped, at least made of h's lines.
Rebuilds(d, h) ==
    /\ Intact(h) => d = h
    /\ \A k \in DOMAIN d : k \in Lines(h) /\ d[k] \in Lines(h)

(* Safety: parse_fabric_dump returns the name maps and the blocks exactly as *)
(* the script read them, whatever Redis replied, in whatever order the pairs *)
(* and the keys came, with empty hashes and repeated keys.  Its docstring    *)
(* says so; empty values are the exception.                                  *)
RoundTrip == at = "OIDS_END" => maps = readMaps /\ blocks = readBlocks

(* Safety: an empty value spoils its own hash only.  Every hash without one  *)
(* is returned as it was read, no block is missing or made up, and no line   *)
(* gets into another hash than its own.                                      *)
DamageContained ==
    at = "OIDS_END" =>
      /\ \A s \in MapSections : Rebuilds(maps[s], readMaps[s])
      /\ \A s \in BlockSections :
           /\ DOMAIN blocks[s] = DOMAIN readBlocks[s]
           /\ \A b \in DOMAIN blocks[s] : Rebuilds(blocks[s][b], readBlocks[s][b])

(* Safety: at every moment what is parsed so far rebuilds what was read so   *)
(* far but for the hash being printed, and only lines of that hash wait in   *)
(* the buffer, exactly the printed ones unless one is empty: nothing is      *)
(* carried from one hash into the next.                                      *)
NothingCarriedOver ==
    /\ \A s \in MapSections : s # at => Rebuilds(maps[s], readMaps[s])
    /\ \A s \in BlockSections : \A b \in DOMAIN readBlocks[s] :
         <<s, b>> # <<at, current>> =>
            b \in DOMAIN blocks[s] /\ Rebuilds(blocks[s][b], readBlocks[s][b])
    /\ \A f \in DOMAIN pairs : f \in Lines(hash) /\ pairs[f] \in Lines(hash)
    /\ odd # None => odd \in Lines(hash)
    /\ Intact(hash) => /\ pairs = [f \in DOMAIN hash \ unprinted |-> hash[f]]
                       /\ odd = half
=============================================================================
