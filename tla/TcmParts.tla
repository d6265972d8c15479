------------------------------ MODULE TcmParts -------------------------------
(***************************************************************************)
(* How TcmReqServlet turns the controls of an answer into numbered messages *)
(* (TrafCtrl.getXml).  A vehicle that did not ask for a list gets one       *)
(* message per part of a control's path, each posted on a connection of its *)
(* own that may fail; msgtot tells it how many to expect.                   *)
(***************************************************************************)
EXTENDS Integers, Sequences

CONSTANTS
  PartSize,   \* 256 path points to a part
  Sizes,      \* path lengths, in points
  MaxControls \* bound: the number of controls in the answer

ASSUME PartsAssumption ==
  PartSize \in Nat \ {0, 1} /\ Sizes \subseteq Nat \ {0} /\ MaxControls \in Nat

VARIABLES
  asList, \* m_bList: one message with everything
  paths,  \* the length of each control's path, in answer order
  total,  \* nMsgTot
  next,   \* the control, and its part, that getXml is called for next
  part,
  num,    \* nMsgCount
  buffer, \* sBuf: the messages of a list, until they are posted in one piece
  got     \* the messages that reached the vehicle

vars == <<asList, paths, total, next, part, num, buffer, got>>

Parts(size) == size \div PartSize + 1

PartsToSend(size) == IF asList THEN 1 ELSE Parts(size)

(* nPtsIndex: a later part begins with the last node of the one before.       *)
FirstNode(k) == IF k = 0 THEN 0 ELSE k * PartSize - 1

(* Mutant: the end of a part is taken to be inclusive.                        *)
NodesShort(size, k) ==
  IF asList THEN 0..(size - 1)
  ELSE {n \in FirstNode(k)..(size - 1) : n < (FirstNode(k) \div PartSize + 1) * PartSize - 1}

(* The nodes getXml writes, by their index in the path.                       *)
Nodes(size, k) ==
  IF asList THEN 0..(size - 1)
  ELSE {n \in FirstNode(k)..(size - 1) : n < (FirstNode(k) \div PartSize + 1) * PartSize}

-----------------------------------------------------------------------------
PartsTypeOK ==
  /\ asList \in BOOLEAN /\ paths \in Seq(Sizes) /\ Len(paths) <= MaxControls
  /\ total \in Nat /\ next \in 0..(Len(paths) + 1) /\ part \in Nat /\ num \in Nat
  /\ \A m \in got : m.num \in 1..total /\ m.control \in 1..Len(paths)

Init ==
  /\ asList \in BOOLEAN
  /\ paths = <<>> /\ total = 0 /\ next = 0 /\ part = 0 /\ num = 1
  /\ buffer = {} /\ got = {}

(* A control joins the answer and its parts are counted.                      *)
Collect(size) ==
  /\ next = 0 /\ Len(paths) < MaxControls
  /\ paths' = Append(paths, size) /\ total' = total + Parts(size)
  /\ UNCHANGED <<asList, next, part, num, buffer, got>>

(* All bounds are done; a list is counted by control instead.                 *)
StartSending ==
  /\ next = 0 /\ next' = 1
  /\ total' = IF asList THEN Len(paths) ELSE total
  /\ UNCHANGED <<asList, paths, part, num, buffer, got>>

Message == [num |-> num, control |-> next, part |-> part, nodes |-> Nodes(paths[next], part)]

(* A message is posted, and may not arrive; those of a list are kept back.    *)
Post(message, arrives) ==
  /\ buffer' = IF asList THEN buffer \cup {message} ELSE buffer
  /\ got' = IF arrives /\ ~asList THEN got \cup {message} ELSE got

(* Mutant: the first connection that fails ends the control.                  *)
SendPartOrGiveUp ==
  /\ next \in 1..Len(paths) /\ num' = num + 1
  /\ \E arrives \in BOOLEAN :
       /\ Post(Message, arrives)
       /\ IF arrives /\ part + 1 < PartsToSend(paths[next])
          THEN part' = part + 1 /\ next' = next
          ELSE part' = 0 /\ next' = next + 1
  /\ UNCHANGED <<asList, paths, total>>

(* One part is written and posted.  A connection that fails is logged, and    *)
(* the loop goes on with the next part.                                       *)
SendPart ==
  /\ next \in 1..Len(paths) /\ num' = num + 1
  /\ \E arrives \in BOOLEAN : Post(Message, arrives)
  /\ IF part + 1 < PartsToSend(paths[next])
     THEN part' = part + 1 /\ next' = next
     ELSE part' = 0 /\ next' = next + 1
  /\ UNCHANGED <<asList, paths, total>>

(* The list goes out in one piece, or not at all.                             *)
PostList ==
  /\ next = Len(paths) + 1 /\ buffer # {} /\ buffer' = {}
  /\ got' \in {{}, buffer}
  /\ UNCHANGED <<asList, paths, total, next, part, num>>

Next == (\E size \in Sizes : Collect(size)) \/ StartSending \/ SendPart \/ PostList

Spec == Init /\ [][Next]_vars

-----------------------------------------------------------------------------
(* Properties.                                                                *)

(* msgtot, "total expected traffic control message responses", is counted      *)
(* while the controls are collected and msgnum while they are sent: the two    *)
(* agree at the end, whichever connections failed.                             *)
NumbersReachTotal == next = Len(paths) + 1 => num = total + 1

(* No message goes out without a node, "nodes SEQUENCE (SIZE(1..255))".        *)
NoEmptyPart == \A m \in got : m.nodes # {}

(* A vehicle that has the msgtot messages it was told to expect has every node  *)
(* of the paths that fit one part, and of every path if it asked for a list.   *)
WholeWhenAllArrive ==
  next = Len(paths) + 1 /\ {m.num : m \in got} = 1..total =>
    \A i \in 1..Len(paths) : asList \/ paths[i] <= PartSize =>
      UNION {m.nodes : m \in {x \in got : x.control = i}} = 0..(paths[i] - 1)

(* Messages are numbered from one to the total, in the order of the parts.     *)
Numbered == PartsTypeOK /\ NumbersReachTotal

(* A path arrives in parts that hold something, and as a whole.                *)
Complete == NoEmptyPart /\ WholeWhenAllArrive

(* "nodes SEQUENCE (SIZE(1..255)) OF PathNode"                                 *)
NodesFit == \A m \in got : \A n \in m.nodes : n < FirstNode(m.part) + 255
=============================================================================
