------------------------------ MODULE DecodeBounds ------------------------------
(***************************************************************************)
(* What the Avro and Protobuf decoders do before they hand a message to    *)
(* their libraries: they walk it with a budget of nodes, names and depth   *)
(* (crates/avro/src/bounds.rs, avro.rs and reader.rs, crates/protobuf/src/ *)
(* bounds.rs and protobuf.rs). The schema and the message are whatever the *)
(* next step makes of them, so a behavior is the walk of any message under *)
(* any schema. Beside it, what the library builds of the same message.     *)
(*                                                                         *)
(* A walk is a stack of frames, one for each value that is being walked;   *)
(* the frames below the top one give the depth.                            *)
(***************************************************************************)
EXTENDS Integers, Sequences, FiniteSetsExt

CONSTANTS
    MaxNodes,       \* MAX_NODES, 4096 in the code
    MaxDepth,       \* MAX_DEPTH, 32 in the code
    MaxNames,       \* MAX_SCHEMA_BYTES, 256 KiB in the code; a name counts 1 here
    MaxBytes,       \* MAX_PAYLOAD_BYTES, 64 KiB in the code
    MaxOutput       \* MAX_OUTPUT_BYTES, 1 MiB in the code

VARIABLE walk

-----------------------------------------------------------------------------
(* The budget *)

(* schema: the JSON of Avro schemas. datum: an Avro message. reader: its   *)
(* value and the reader's schema. wire: a Protobuf message or descriptors. *)
Mode == {"schema", "datum", "reader", "wire"}

Walking(mode) == walk.state = "walking" /\ walk.mode = mode /\ walk.stack # <<>>
Top == walk.stack[Len(walk.stack)]
Below(stack) == SubSeq(stack, 1, Len(stack) - 1)
Depth == Len(walk.stack) - 1

(* A count that was announced is held against what is left of the budget   *)
(* before anything of it is walked.                                        *)
Collection(count, cost) == count <= MaxNodes - (walk.nodes + cost)

Affordable(node) ==
    /\ Depth + node.below <= MaxDepth
    /\ walk.nodes + node.cost <= MaxNodes
    /\ Collection(node.count, node.cost)
    /\ walk.names + node.names <= MaxNames
    /\ node.bytes <= walk.rest

Refuse == walk' = [walk EXCEPT !.state = "refused"]

(* cost and names are charged, bytes are taken, count elements announced,  *)
(* built values made by the library, of which it names some; below tells a *)
(* node one level down, and taken how much of the frame it is.             *)
Node == [cost |-> 1, names |-> 0, bytes |-> 0, count |-> 0, built |-> 1, below |-> 0,
         taken |-> 1]

(* The element of the top frame is real unless it is a variant that the    *)
(* library does not choose.                                                *)
Real == Top.real /\ (Top.kind = "variants" => Top.left = Top.pick)

(* One node is walked, and frames opened for what is inside.               *)
Visit(node, frames) ==
    IF ~Affordable(node) THEN Refuse
    ELSE walk' = [walk EXCEPT
            !.nodes = @ + node.cost, !.names = @ + node.names, !.rest = @ - node.bytes,
            !.built = @ + (IF Real THEN node.built ELSE 0),
            !.named = @ + (IF Real THEN node.names ELSE 0),
            !.deep = IF Real THEN Max({@, Depth + node.below}) ELSE @,
            !.stack = Append(Below(@), [Top EXCEPT !.left = @ - node.taken]) \o frames]

Frame(kind, left) == [kind |-> kind, left |-> left, pick |-> 0, real |-> Real]

-----------------------------------------------------------------------------
(* The JSON of a schema and its references, one budget for all of them *)

SchemaScalar == Walking("schema") /\ Top.left > 0 /\ Visit(Node, <<>>)

SchemaContainer ==
    /\ Walking("schema") /\ Top.left > 0
    /\ \E count \in 0 .. MaxNodes, named \in BOOLEAN :
          Visit([Node EXCEPT !.count = count, !.names = IF named THEN count ELSE 0],
                <<Frame("fields", count)>>)

-----------------------------------------------------------------------------
(* An Avro message *)

(* The element of a map has a key, which is a node and some bytes as well. *)
Keyed(node) ==
    IF Top.kind # "map" THEN node
    ELSE [node EXCEPT !.cost = @ + 1, !.bytes = @ + 1, !.built = @ + 1]

(* Mutation: a value of no width costs nothing.                            *)
DatumScalarFree ==
    /\ Walking("datum") /\ Top.left > 0
    /\ \E width \in {0, 1}, named \in {0, 1} :
          Visit(Keyed([Node EXCEPT !.cost = width, !.bytes = width, !.names = named]), <<>>)

(* Of no width (null, an empty fixed), or of some; an enum has a name.     *)
DatumScalar ==
    /\ Walking("datum") /\ Top.left > 0
    /\ \E width \in {0, 1}, named \in {0, 1} :
          Visit(Keyed([Node EXCEPT !.bytes = width, !.names = named]), <<>>)

(* A union names its branch; a reference to a named type is not a value.   *)
DatumUnion ==
    /\ Walking("datum") /\ Top.left > 0
    /\ \E union \in {0, 1} :
          Visit(Keyed([Node EXCEPT !.bytes = union, !.built = union]), <<Frame("one", 1)>>)

DatumRecord ==
    /\ Walking("datum") /\ Top.left > 0
    /\ \E count \in 0 .. MaxNodes :
          Visit(Keyed([Node EXCEPT !.names = count, !.count = count]),
                <<Frame("fields", count)>>)

DatumBlocks ==
    /\ Walking("datum") /\ Top.left > 0
    /\ \E kind \in {"array", "map"} : Visit(Keyed(Node), <<Frame(kind, 0)>>)

(* The next block of an array or a map.                                    *)
DatumBlock ==
    /\ Walking("datum") /\ Top.kind \in {"array", "map"} /\ Top.left = 0
    /\ \E count \in 1 .. MaxNodes + 1 :
          IF walk.rest < 1 \/ ~Collection(count, 0) THEN Refuse
          ELSE walk' = [walk EXCEPT !.rest = @ - 1,
                                    !.stack = Append(Below(@), [Top EXCEPT !.left = count])]

(* A count of zero ends them.                                              *)
DatumBlocksEnd ==
    /\ Walking("datum") /\ Top.kind \in {"array", "map"} /\ Top.left = 0
    /\ IF walk.rest < 1 THEN Refuse
       ELSE walk' = [walk EXCEPT !.rest = @ - 1, !.stack = Below(@)]

(* No such enum symbol, union branch or reference, a size that is not the  *)
(* block's, an integer too long, or a big-decimal.                         *)
DatumInvalid == Walking("datum") /\ Refuse

-----------------------------------------------------------------------------
(* A decoded value and the reader's schema *)

(* A field that the value has not got is its default, converted from JSON  *)
(* first and then walked like a value. What is inside a default is charged *)
(* and built twice alike, which is left out here.                          *)
Default(node, missing) ==
    IF missing THEN [node EXCEPT !.cost = @ + 1, !.built = @ + 1] ELSE node

ReaderScalar ==
    /\ Walking("reader") /\ Top.left > 0
    /\ \E named \in {0, 1}, missing \in {FALSE, Top.kind = "fields"} :
          Visit(Default([Node EXCEPT !.names = named], missing), <<>>)

ReaderRecord ==
    /\ Walking("reader") /\ Top.left > 0
    /\ \E count \in 0 .. MaxNodes, missing \in {FALSE, Top.kind = "fields"} :
          Visit(Default([Node EXCEPT !.names = count, !.count = count], missing),
                <<Frame("fields", count)>>)

ReaderElements ==
    /\ Walking("reader") /\ Top.left > 0
    /\ \E count \in 0 .. MaxNodes, keys \in BOOLEAN, missing \in {FALSE, Top.kind = "fields"} :
          Visit(Default([Node EXCEPT !.names = IF keys THEN count ELSE 0, !.count = count],
                        missing),
                <<Frame("elements", count)>>)

(* The value of a union, or the type that a reference names.               *)
ReaderWrapped ==
    /\ Walking("reader") /\ Top.left > 0
    /\ \E union \in {0, 1} : Visit([Node EXCEPT !.built = union], <<Frame("one", 1)>>)

(* Every variant is walked; the library chooses one of them.               *)
ReaderUnion ==
    /\ Walking("reader") /\ Top.left > 0
    /\ \E count \in 1 .. 2, missing \in {FALSE, Top.kind = "fields"} :
       \E pick \in 1 .. count :
          Visit(Default(Node, missing), <<[Frame("variants", count) EXCEPT !.pick = pick]>>)

-----------------------------------------------------------------------------
(* A Protobuf message: the frame has the bytes that are left of its body *)

(* Every element of a packed field is a node, one level down.              *)
Packed(length) ==
    [Node EXCEPT !.taken = 1 + length, !.cost = 1 + length, !.built = 1 + length,
                 !.below = IF length > 0 THEN 1 ELSE 0]

(* A number, or a text, or what the schema does not know and stays opaque. *)
WireScalar ==
    /\ Walking("wire") /\ Top.left > 0
    /\ \E length \in 0 .. Top.left - 1 : Visit([Node EXCEPT !.taken = 1 + length], <<>>)

WirePacked ==
    /\ Walking("wire") /\ Top.left > 0
    /\ \E length \in 0 .. Top.left - 1 : Visit(Packed(length), <<>>)

(* The field is a node, and so is the message in it.                       *)
WireMessage ==
    /\ Walking("wire") /\ Top.left > 0
    /\ \E length \in 0 .. Top.left - 1 :
          Visit([Node EXCEPT !.taken = 1 + length, !.cost = 2, !.below = 1],
                <<Frame("message", length)>>)

(* A group has no length: it goes on in the body that it is in.            *)
WireGroup ==
    /\ Walking("wire") /\ Top.left > 0
    /\ Visit([Node EXCEPT !.taken = Top.left, !.cost = 2, !.below = 1],
             <<Frame("group", Top.left - 1)>>)

(* The end of the group, where there is one.                               *)
WireGroupEnd ==
    /\ Walking("wire") /\ Top.left > 0
    /\ IF Top.kind # "group" THEN Refuse
       ELSE LET below == walk.stack[Len(walk.stack) - 1] IN
            walk' = [walk EXCEPT
                !.stack = Append(Below(Below(@)), [below EXCEPT !.left = Top.left - 1])]

(* A length beyond the body, a number cut short, a key of no field.        *)
WireInvalid == Walking("wire") /\ (Top.left > 0 \/ Top.kind = "group") /\ Refuse

-----------------------------------------------------------------------------
(* The end of a frame, and of the walk *)

Ended == Top.left = 0 /\ Top.kind \notin {"array", "map", "group"}

Return ==
    /\ walk.state = "walking" /\ walk.stack # <<>> /\ Ended
    /\ walk' = [walk EXCEPT !.stack = Below(@)]

(* "Trailing bytes after Avro datum" are refused.                          *)
Finish ==
    /\ walk.state = "walking" /\ walk.stack = <<>>
    /\ walk' = [walk EXCEPT !.state = IF walk.rest = 0 THEN "accepted" ELSE "refused"]

(* The JSON of an accepted message: refused before it grows too large.     *)
Write ==
    /\ walk.state = "accepted" /\ walk.mode # "schema"
    /\ \E bytes \in 1 .. 2 :
          walk' = IF bytes > MaxOutput - walk.output THEN [walk EXCEPT !.state = "raw"]
                  ELSE [walk EXCEPT !.output = @ + bytes]

-----------------------------------------------------------------------------
Root(kind, left) == <<[kind |-> kind, left |-> left, pick |-> 0, real |-> TRUE]>>

Start(mode, rest, stack, nodes) ==
    [mode |-> mode, state |-> "walking", stack |-> stack, nodes |-> nodes, names |-> 0,
     rest |-> rest, built |-> nodes, named |-> 0, deep |-> 0, output |-> 0]

Init ==
    \/ \E texts \in 1 .. 2 : walk = Start("schema", 0, Root("one", texts), 0)
    \/ \E bytes \in 0 .. MaxBytes : walk = Start("datum", bytes, Root("one", 1), 0)
    \/ walk = Start("reader", 0, Root("one", 1), 0)
    \/ \E bytes \in 0 .. MaxBytes : walk = Start("wire", 0, Root("message", bytes), 1)

Done == walk.state \in {"accepted", "refused", "raw"} /\ UNCHANGED walk

Next ==
    \/ SchemaScalar \/ SchemaContainer
    \/ DatumScalar \/ DatumUnion \/ DatumRecord \/ DatumBlocks \/ DatumBlock
    \/ DatumBlocksEnd \/ DatumInvalid
    \/ ReaderScalar \/ ReaderWrapped \/ ReaderRecord \/ ReaderElements \/ ReaderUnion
    \/ WireScalar \/ WirePacked \/ WireMessage \/ WireGroup \/ WireGroupEnd \/ WireInvalid
    \/ Return \/ Finish \/ Write
    \/ Done

Spec == Init /\ [][Next]_walk

-----------------------------------------------------------------------------
(* Properties *)

TypeOK ==
    /\ walk.mode \in Mode
    /\ walk.state \in {"walking", "accepted", "refused", "raw"}
    /\ {walk.rest, walk.output} \subseteq Nat
    /\ \A k \in DOMAIN walk.stack : walk.stack[k].left \in Nat /\ walk.stack[k].real \in BOOLEAN

(* Whatever a message and a schema make of each other, what the library    *)
(* then builds of it stays within the limits: the values, the names that   *)
(* are copied into them, how deep they lie, and the JSON that they are     *)
(* shown as. So do the values of no width, of which a few bytes announce   *)
(* millions, the defaults of a reader and the elements of a packed field.  *)
(* What is accepted has no bytes left over.                                *)
DecodingIsBounded ==
    /\ walk.built <= MaxNodes /\ walk.named <= MaxNames
    /\ walk.deep <= MaxDepth /\ walk.output <= MaxOutput
    /\ walk.state \in {"accepted", "raw"} => walk.rest = 0

=============================================================================
