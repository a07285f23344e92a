----------------------------- MODULE MuxProofs ------------------------------
(***************************************************************************)
(* Proofs about Mux, for every number of connections, chunks, ids (no      *)
(* fewer than connections) and capacities.                                 *)
(***************************************************************************)
EXTENDS Mux, FiniteSetTheorems, SequenceTheorems, TLAPS

-----------------------------------------------------------------------------
(* The first layer: what the wires, the registries and the tasks of the    *)
(* two ends know of each other.                                            *)
Frames == [type : {"OPEN", "DATA", "CLOSE"}, id : Ids, load : Pipes \X Nat]

TaskTypes ==
  /\ nextId \in Nat /\ idOf \in [Conns -> Ids]
  /\ entry \in [Ends -> [Ids -> Conns \cup {NoConn}]]
  /\ up \in [Pipes -> {"off", "opening", "dial", "read", "done"}]
  /\ down \in [Pipes -> {"off", "wait", "recv", "abandoned", "done", "gone"}]
  /\ sent \in [Pipes -> Nat]
  /\ broken \subseteq Conns /\ bad \subseteq broken /\ dead \in BOOLEAN

QueueTypes ==
  /\ wire \in [Ends -> Seq(Frames)] /\ \A e \in Ends : Len(wire[e]) <= WireCap
  /\ chan \in [Pipes -> Seq(Pipes \X Nat)] /\ \A p \in Pipes : Len(chan[p]) <= InboundCap
  /\ got \in [Pipes -> Seq(Pipes \X Nat)]

TypeInv == TaskTypes /\ QueueTypes

Registered == {c \in Conns : up[<<"client", c>>] # "off"}

(* The connection a frame is of.                                           *)
Conn(f) == f.load[1][2]

(* A frame travels under the id of its connection, which has begun.        *)
FrameInv ==
  \A e \in Ends : \A k \in 1..Len(wire[e]) :
    /\ wire[e][k].load[1][1] = e
    /\ wire[e][k].id = idOf[Conn(wire[e][k])]
    /\ up[<<"client", Conn(wire[e][k])>>] \notin {"off", "opening"}
    /\ wire[e][k].type = "OPEN" => e = "client"

(* Ids are handed out once.                                                *)
IdInv ==
  /\ nextId = Cardinality(Registered) + 1
  /\ \A c \in Registered : idOf[c] < nextId /\ (idOf[c] = 0 => nextId > IdSpace)
  /\ \A c, d \in Registered : idOf[c] = idOf[d] => c = d

EntryInv ==
  \A e \in Ends : \A i \in Ids : entry[e][i] # NoConn =>
    entry[e][i] \in Registered /\ idOf[entry[e][i]] = i

(* The sender and the receiver of one end are one task's two halves.       *)
StatusInv ==
  /\ \A c \in Conns :
       /\ up[<<"server", c>>] = "off" <=> down[<<"client", c>>] = "off"
       /\ up[<<"client", c>>] = "off" <=> down[<<"server", c>>] = "off"
       /\ up[<<"client", c>>] = "opening" => down[<<"server", c>>] = "wait"
       /\ up[<<"server", c>>] = "dial" => down[<<"client", c>>] = "wait"
       /\ up[<<"client", c>>] \in {"off", "opening"} => up[<<"server", c>>] = "off"
  /\ \A p \in Pipes : down[p] \in {"abandoned", "gone"} => p[2] \in broken

(* An OPEN on the wire is the first its connection is heard of.            *)
OpenInv ==
  \A k \in 1..Len(wire["client"]) : wire["client"][k].type = "OPEN" =>
    /\ \A l \in 1..(k - 1) : Conn(wire["client"][l]) # Conn(wire["client"][k])
    /\ \A l \in 1..Len(wire["server"]) : Conn(wire["server"][l]) # Conn(wire["client"][k])
    /\ up[<<"server", Conn(wire["client"][k])>>] = "off"

DeadInv ==
  dead => /\ broken = Conns
          /\ \A e \in Ends : wire[e] = <<>>
          /\ \A e \in Ends : \A i \in Ids : entry[e][i] = NoConn

EndsInv == TypeInv /\ FrameInv /\ IdInv /\ EntryInv /\ StatusInv /\ OpenInv /\ DeadInv

-----------------------------------------------------------------------------
(* The second layer: where the chunks of a pipe are.                       *)
Carries(p, k) == wire[p[1]][k].type = "DATA" /\ wire[p[1]][k].load[1] = p

Number(p, k) == wire[p[1]][k].load[2]

(* What came out, what waits and what travels is numbered upwards.         *)
ChanOrder(p) ==
  /\ \A i \in 1..Len(chan[p]) : chan[p][i][1] = p /\ chan[p][i][2] \in 1..sent[p]
  /\ \A i, j \in 1..Len(chan[p]) : i < j => chan[p][i][2] < chan[p][j][2]
  /\ \A g \in 1..Len(got[p]) : \A i \in 1..Len(chan[p]) : got[p][g][2] < chan[p][i][2]
  /\ \A g \in 1..Len(got[p]) : got[p][g][2] <= sent[p]

WireOrder(p) ==
  /\ \A k \in 1..Len(wire[p[1]]) : Carries(p, k) => Number(p, k) \in 1..sent[p]
  /\ \A k \in 1..Len(wire[p[1]]) : \A i \in 1..Len(chan[p]) :
       Carries(p, k) => chan[p][i][2] < Number(p, k)
  /\ \A k \in 1..Len(wire[p[1]]) : \A g \in 1..Len(got[p]) :
       Carries(p, k) => got[p][g][2] < Number(p, k)
  /\ \A k, l \in 1..Len(wire[p[1]]) :
       Carries(p, k) /\ Carries(p, l) /\ k < l => Number(p, k) < Number(p, l)

Arrived(p) == Len(got[p]) + Len(chan[p])

(* Nothing of the pipe is missing.                                         *)
Whole(p) ==
  /\ Arrived(p) <= sent[p]
  /\ \A i \in 1..Len(chan[p]) : chan[p][i][2] = Len(got[p]) + i
  /\ \A k \in 1..Len(wire[p[1]]) : Carries(p, k) => Number(p, k) > Arrived(p)
  /\ \A n \in (Arrived(p) + 1)..sent[p] :
       \E k \in 1..Len(wire[p[1]]) : Carries(p, k) /\ Number(p, k) = n

Closing(p, k) == wire[p[1]][k].type = "CLOSE" /\ wire[p[1]][k].load[1] = p

Opening(p, k) == wire[p[1]][k].type = "OPEN" /\ wire[p[1]][k].load[1] = p

Silent(p) == \A k \in 1..Len(wire[p[1]]) : wire[p[1]][k].load[1] # p

(* A CLOSE is sent by a sender that has finished, as its last frame.       *)
CloseLast(p) ==
  /\ \A k \in 1..Len(wire[p[1]]) : Closing(p, k) => up[p] = "done"
  /\ \A k, l \in 1..Len(wire[p[1]]) : Closing(p, k) /\ k < l => wire[p[1]][l].load[1] # p

(* The pipe has not begun, its OPEN travels, the registry of its receiver  *)
(* has it, or all of it has been dispatched.                               *)
Phase(p) ==
  \/ down[p] = "off" /\ up[p] \in {"off", "opening"} /\ Silent(p)
  \/ down[p] = "off" /\ \E k \in 1..Len(wire[p[1]]) : Opening(p, k)
  \/ down[p] \in {"wait", "recv"} /\ entry[Other(p[1])][idOf[p[2]]] = p[2]
  \/ up[p] = "done" /\ Silent(p)

(* Numbers always go up; while its connection is not broken a pipe is      *)
(* whole and well ended.                                                   *)
PipeOk(p) ==
  /\ ChanOrder(p) /\ WireOrder(p)
  /\ p[2] \notin broken => Whole(p) /\ CloseLast(p) /\ Phase(p)

PipeInv == \A p \in Pipes : PipeOk(p)

-----------------------------------------------------------------------------
(* The third: an entry is there for a CLOSE that is still to come.         *)
Awaited(p) ==
  \/ entry[Other(p[1])][idOf[p[2]]] = p[2]
  \/ \E k \in 1..Len(wire[p[1]]) : Opening(p, k)

StaleInv ==
  \A p \in Pipes : p[2] \notin bad /\ up[p] = "done" /\ Awaited(p) =>
    \E k \in 1..Len(wire[p[1]]) : Closing(p, k)

-----------------------------------------------------------------------------
LEMMA EndsFacts ==
  /\ \A e \in Ends : Other(e) \in Ends /\ Other(e) # e /\ Other(Other(e)) = e
  /\ Ends = {"client", "server"} /\ Other("client") = "server" /\ Other("server") = "client"
  /\ \A e \in Ends : \A c \in Conns : <<e, c>> \in Pipes
  /\ \A p \in Pipes : p[1] \in Ends /\ p[2] \in Conns /\ p = <<p[1], p[2]>>
  /\ NoConn \notin Conns /\ IdSpace \in Nat
  BY MuxAssumption DEF Ends, Other, Pipes

LEMMA SendFacts ==
  ASSUME TypeInv, NEW e \in Ends, NEW f \in Frames, Send(e, f)
  PROVE  /\ ~dead /\ wire' \in [Ends -> Seq(Frames)]
         /\ Len(wire'[e]) = Len(wire[e]) + 1 /\ Len(wire'[e]) <= WireCap
         /\ \A k \in 1..Len(wire[e]) : wire'[e][k] = wire[e][k]
         /\ wire'[e][Len(wire'[e])] = f
         /\ wire'[Other(e)] = wire[Other(e)]
<1>1. wire[e] \in Seq(Frames) /\ wire'[e] = Append(wire[e], f) /\ ~dead /\ Len(wire[e]) < WireCap
      /\ wire'[Other(e)] = wire[Other(e)] /\ wire' \in [Ends -> Seq(Frames)]
  BY EndsFacts DEF TypeInv, QueueTypes, Send, Room
<1>2. QED
  BY <1>1, AppendProperties, MuxAssumption

LEMMA TakenFacts ==
  ASSUME TypeInv, NEW e \in Ends, wire[e] # <<>>
  PROVE  /\ [wire EXCEPT ![e] = Tail(@)] \in [Ends -> Seq(Frames)]
         /\ Head(wire[e]) = wire[e][1] /\ wire[e][1] \in Frames /\ 1 \in 1..Len(wire[e])
         /\ Len([wire EXCEPT ![e] = Tail(@)][e]) = Len(wire[e]) - 1
         /\ \A k \in 1..(Len(wire[e]) - 1) :
              [wire EXCEPT ![e] = Tail(@)][e][k] = wire[e][k + 1]
         /\ [wire EXCEPT ![e] = Tail(@)][Other(e)] = wire[Other(e)]
<1>1. wire[e] \in Seq(Frames) /\ wire \in [Ends -> Seq(Frames)]
  BY DEF TypeInv, QueueTypes
<1>2. /\ Tail(wire[e]) \in Seq(Frames) /\ Len(Tail(wire[e])) = Len(wire[e]) - 1
      /\ Head(wire[e]) = wire[e][1] /\ Len(wire[e]) \in Nat \ {0}
      /\ \A k \in 1..(Len(wire[e]) - 1) : Tail(wire[e])[k] = wire[e][k + 1]
  BY <1>1, HeadTailProperties, EmptySeq
<1>3. QED
  BY <1>1, <1>2, EndsFacts

LEMMA WireFacts ==
  ASSUME TypeInv, NEW e \in Ends, NEW k \in 1..Len(wire[e])
  PROVE  /\ Len(wire[e]) \in Nat /\ wire[e][k] \in Frames /\ wire[e][k].id \in Ids
         /\ Conn(wire[e][k]) \in Conns /\ wire[e][k].load[1] \in Pipes
         /\ wire[e][k].load[2] \in Nat
         /\ wire[e][k].load[1] = <<wire[e][k].load[1][1], Conn(wire[e][k])>>
         /\ wire[e][k].load = <<wire[e][k].load[1], wire[e][k].load[2]>>
<1>1. wire[e] \in Seq(Frames) /\ Len(wire[e]) \in Nat
  BY DEF TypeInv, QueueTypes
<1>2. wire[e][k] \in Frames
  BY <1>1
<1>3. QED
  BY <1>1, <1>2 DEF Frames, Pipes, Conn

(* Up to the size of the id space the counter is the id.                   *)
LEMMA SmallId ==
  ASSUME NEW n \in Nat, NEW m \in Nat, 0 < n, n <= m
  PROVE  n % m = IF n = m THEN 0 ELSE n
  OBVIOUS

LEMMA FrameType ==
  ASSUME TypeInv, NEW t \in {"OPEN", "DATA", "CLOSE"}, NEW c \in Conns, NEW p \in Pipes,
         NEW n \in Nat
  PROVE  /\ Frame(t, c, p, n) \in Frames
         /\ Frame(t, c, p, n).type = t /\ Frame(t, c, p, n).id = idOf[c]
         /\ Frame(t, c, p, n).load[1] = p /\ Frame(t, c, p, n).load[2] = n
  BY DEF TypeInv, TaskTypes, Frame, Frames

-----------------------------------------------------------------------------
(* The first layer is inductive.                                           *)
LEMMA EndsInit == Init => EndsInv
<1> SUFFICES ASSUME Init PROVE EndsInv
  OBVIOUS
<1>1. Registered = {} /\ Cardinality(Registered) = 0
  BY FS_EmptySet, EndsFacts DEF Init, Registered
<1>2. \A e \in Ends : wire[e] = <<>> /\ Len(wire[e]) = 0
  BY EmptySeq DEF Init
<1>3. \A p \in Pipes : chan[p] = <<>> /\ Len(chan[p]) = 0
  BY EmptySeq DEF Init
<1>4. TypeInv
  <2>1. idOf \in [Conns -> Ids]
    <3> SUFFICES ASSUME NEW c \in Conns PROVE 0 \in Ids
      BY DEF Init
    <3>1. Cardinality(Conns) # 0
      BY MuxAssumption, FS_EmptySet
    <3>2. QED
      BY <3>1, MuxAssumption, FS_CardinalityType DEF Ids
  <2>2. wire \in [Ends -> Seq(Frames)] /\ chan \in [Pipes -> Seq(Pipes \X Nat)]
        /\ got \in [Pipes -> Seq(Pipes \X Nat)]
    BY EmptySeq DEF Init
  <2>3. QueueTypes
    BY <1>2, <1>3, <2>2, MuxAssumption DEF QueueTypes
  <2>4. QED
    BY <2>1, <2>3 DEF Init, TypeInv, TaskTypes
<1>5. FrameInv /\ OpenInv
  BY <1>2, EndsFacts DEF FrameInv, OpenInv
<1>6. IdInv /\ EntryInv
  BY <1>1 DEF Init, IdInv, EntryInv
<1>7. StatusInv /\ DeadInv
  BY EndsFacts DEF Init, StatusInv, DeadInv
<1>8. QED
  BY <1>4, <1>5, <1>6, <1>7 DEF EndsInv

(* A connection that registers gets an id no other has.                    *)
LEMMA FreshId ==
  ASSUME EndsInv, NEW c \in Conns \ Registered
  PROVE  /\ AllocId \in Ids /\ AllocId < nextId + 1
         /\ AllocId = 0 => nextId + 1 > IdSpace
         /\ \A d \in Registered : idOf[d] # AllocId
         /\ \A d \in Registered : idOf[d] # 0 /\ idOf[d] \in Nat
         /\ Cardinality(Registered \cup {c}) = Cardinality(Registered) + 1
<1>1. IsFiniteSet(Registered) /\ Cardinality(Registered) \in Nat
  <2>1. Registered \in SUBSET Conns
    BY DEF Registered
  <2>2. QED
    BY <2>1, MuxAssumption, FS_Subset, FS_CardinalityType
<1>2. Cardinality(Registered \cup {c}) = Cardinality(Registered) + 1
  BY <1>1, FS_AddElement
<1>3. Cardinality(Registered \cup {c}) <= Cardinality(Conns)
  <2>1. Registered \cup {c} \in SUBSET Conns
    BY DEF Registered
  <2>2. QED
    BY <2>1, MuxAssumption, FS_Subset
<1>4. nextId \in Nat /\ 0 < nextId /\ nextId <= IdSpace
  BY <1>1, <1>2, <1>3, MuxAssumption, FS_CardinalityType DEF EndsInv, IdInv
<1>5. AllocId = IF nextId = IdSpace THEN 0 ELSE nextId
  BY <1>4, SmallId, MuxAssumption DEF AllocId
<1>6. \A d \in Registered : idOf[d] \in Nat /\ idOf[d] < nextId /\ idOf[d] # 0
  <2>1. \A d \in Registered : idOf[d] \in Ids
    BY DEF EndsInv, TypeInv, TaskTypes, Registered
  <2>2. \A d \in Registered : idOf[d] \in Nat
    BY <2>1, MuxAssumption DEF Ids
  <2>3. QED
    BY <1>4, <2>2, MuxAssumption DEF EndsInv, IdInv
<1>7. QED
  BY <1>2, <1>4, <1>5, <1>6, MuxAssumption DEF Ids

LEMMA ClientRegisterEnds ==
  ASSUME EndsInv, NEW c \in Conns, ClientRegister(c)
  PROVE  EndsInv'
<1> USE EndsFacts DEF EndsInv
<1>1. c \in Conns \ Registered /\ ~dead
  BY DEF ClientRegister, Registered
<1>2. Registered' = Registered \cup {c}
  BY DEF ClientRegister, Registered, TypeInv, TaskTypes
<1>3. /\ idOf'[c] = AllocId /\ AllocId \in Ids
      /\ \A d \in Conns : d # c => idOf'[d] = idOf[d]
  BY <1>1, FreshId DEF ClientRegister, TypeInv, TaskTypes
<1>4. \A e \in Ends : \A k \in 1..Len(wire[e]) :
        Conn(wire[e][k]) \in Conns /\ Conn(wire[e][k]) # c
  BY <1>1, WireFacts DEF FrameInv, Registered
<1>5. TypeInv'
  <2>1. TaskTypes'
    BY <1>3 DEF ClientRegister, TypeInv, TaskTypes
  <2>2. QED
    BY <2>1 DEF ClientRegister, TypeInv, QueueTypes
<1>6. FrameInv'
  <2>1. UNCHANGED wire /\ \A d \in Conns : d # c => up'[<<"client", d>>] = up[<<"client", d>>]
    BY DEF ClientRegister, TypeInv, TaskTypes
  <2>2. QED
    BY <1>3, <1>4, <2>1 DEF FrameInv, Conn
<1>7. IdInv'
  <2>1. nextId' = nextId + 1 /\ nextId \in Nat
    BY DEF ClientRegister, TypeInv, TaskTypes
  <2>2. \A d \in Registered : d \in Conns /\ d # c
    BY <1>1 DEF Registered
  <2>3. \A d \in Registered' : idOf'[d] < nextId' /\ (idOf'[d] = 0 => nextId' > IdSpace)
    BY <1>1, <1>2, <1>3, <2>1, <2>2, FreshId DEF IdInv
  <2>4. \A b, d \in Registered' : idOf'[b] = idOf'[d] => b = d
    BY <1>1, <1>2, <1>3, <2>2, FreshId DEF IdInv
  <2>5. nextId' = Cardinality(Registered') + 1
    BY <1>1, <1>2, <2>1, FreshId DEF IdInv
  <2>6. QED
    BY <2>3, <2>4, <2>5 DEF IdInv
<1>8. EntryInv'
  BY <1>1, <1>2, <1>3 DEF ClientRegister, EntryInv, TypeInv, TaskTypes, Registered
<1>9. StatusInv'
  BY <1>1 DEF ClientRegister, StatusInv, TypeInv, TaskTypes, Registered
<1>10. OpenInv'
  BY <1>4 DEF ClientRegister, OpenInv, TypeInv, TaskTypes
<1>11. DeadInv'
  BY <1>1 DEF ClientRegister, DeadInv
<1>12. QED
  BY <1>5, <1>6, <1>7, <1>8, <1>9, <1>10, <1>11

(* How a step changes the wire of end e: s frames (none or one) are taken  *)
(* from its front, and f may be added behind.                              *)
Moves(e, s, f) ==
  /\ \A k \in 1..Len(wire'[e]) :
       \/ k + s \in 1..Len(wire[e]) /\ wire'[e][k] = wire[e][k + s]
       \/ k + s = Len(wire[e]) + 1 /\ wire'[e][k] = f
  /\ \A k \in 1..Len(wire[e]) : k > s =>
       k - s \in 1..Len(wire'[e]) /\ wire'[e][k - s] = wire[e][k]

Shifts(e, s) ==
  /\ \A k \in 1..Len(wire'[e]) : k + s \in 1..Len(wire[e]) /\ wire'[e][k] = wire[e][k + s]
  /\ \A k \in 1..Len(wire[e]) : k > s =>
       k - s \in 1..Len(wire'[e]) /\ wire'[e][k - s] = wire[e][k]

LEMMA UnchangedShifts ==
  ASSUME TypeInv, NEW e \in Ends, wire'[e] = wire[e]
  PROVE  Shifts(e, 0)
  BY DEF TypeInv, QueueTypes, Shifts

LEMMA SendMoves ==
  ASSUME TypeInv, NEW e \in Ends, NEW f \in Frames, Send(e, f)
  PROVE  Moves(e, 0, f) /\ Shifts(Other(e), 0)
<1>1. Moves(e, 0, f)
  BY SendFacts DEF TypeInv, QueueTypes, Moves
<1>2. QED
  BY <1>1, SendFacts, UnchangedShifts, EndsFacts

LEMMA TakenMoves ==
  ASSUME TypeInv, NEW e \in Ends, wire[Other(e)] # <<>>, wire' = Taken(e)
  PROVE  /\ Shifts(Other(e), 1) /\ Shifts(e, 0)
         /\ wire' \in [Ends -> Seq(Frames)] /\ \A x \in Ends : Len(wire'[x]) <= WireCap
         /\ Arriving(e) = wire[Other(e)][1] /\ 1 \in 1..Len(wire[Other(e)])
<1>1. /\ wire' \in [Ends -> Seq(Frames)]
      /\ Arriving(e) = wire[Other(e)][1] /\ 1 \in 1..Len(wire[Other(e)])
      /\ Len(wire'[Other(e)]) = Len(wire[Other(e)]) - 1
      /\ \A k \in 1..(Len(wire[Other(e)]) - 1) : wire'[Other(e)][k] = wire[Other(e)][k + 1]
      /\ wire'[e] = wire[e]
  BY TakenFacts, EndsFacts DEF Taken, Arriving
<1>2. Len(wire[Other(e)]) \in Nat /\ Len(wire[Other(e)]) <= WireCap
  BY EndsFacts DEF TypeInv, QueueTypes
<1>3. Shifts(Other(e), 1)
  BY <1>1, <1>2 DEF Shifts
<1>4. Shifts(e, 0)
  BY <1>1, UnchangedShifts
<1>5. \A x \in Ends : Len(wire'[x]) <= WireCap
  <2>1. \A x \in Ends : x = e \/ x = Other(e)
    BY EndsFacts
  <2>2. Len(wire'[e]) <= WireCap
    BY <1>1 DEF TypeInv, QueueTypes
  <2>3. Len(wire'[Other(e)]) <= WireCap
    BY <1>1, <1>2, MuxAssumption
  <2>4. QED
    BY <2>1, <2>2, <2>3
<1>6. QED
  BY <1>1, <1>3, <1>4, <1>5

(* What the frames of the first layer need of such a step.                 *)
LEMMA FramesKept ==
  ASSUME EndsInv, UNCHANGED idOf,
         \A c \in Conns : up[<<"client", c>>] \notin {"off", "opening"} =>
                          up'[<<"client", c>>] \notin {"off", "opening"},
         NEW e \in Ends, NEW s \in {0, 1}, NEW r \in {0, 1}, NEW f \in Frames,
         Moves(e, s, f), Shifts(Other(e), r),
         f.load[1][1] = e, f.id = idOf[Conn(f)],
         up'[<<"client", Conn(f)>>] \notin {"off", "opening"},
         f.type = "OPEN" => e = "client"
  PROVE  FrameInv'
<1> DEFINE Good(x, g) == /\ g.load[1][1] = x /\ g.id = idOf'[Conn(g)]
                         /\ up'[<<"client", Conn(g)>>] \notin {"off", "opening"}
                         /\ g.type = "OPEN" => x = "client"
<1>1. Good(e, f)
  OBVIOUS
<1>2. \A x \in Ends : \A j \in 1..Len(wire[x]) : Good(x, wire[x][j])
  BY WireFacts DEF EndsInv, FrameInv
<1> HIDE DEF Good
<1>3. \A k \in 1..Len(wire'[e]) : Good(e, wire'[e][k])
  BY <1>1, <1>2 DEF Moves
<1>4. \A k \in 1..Len(wire'[Other(e)]) : Good(Other(e), wire'[Other(e)][k])
  BY <1>2, EndsFacts DEF Shifts
<1>5. \A x \in Ends : \A k \in 1..Len(wire'[x]) : Good(x, wire'[x][k])
  BY <1>3, <1>4, EndsFacts
<1>6. QED
  BY <1>5 DEF FrameInv, Good

LEMMA OpensKept ==
  ASSUME EndsInv, NEW e \in Ends, NEW s \in {0, 1}, NEW r \in {0, 1}, NEW f \in Frames,
         Moves(e, s, f), Shifts(Other(e), r),
         \A x \in Ends : Len(wire'[x]) \in Nat,
         f.type = "OPEN" => /\ e = "client" /\ up'[<<"server", Conn(f)>>] = "off"
                            /\ \A x \in Ends : \A k \in 1..Len(wire[x]) : Conn(wire[x][k]) # Conn(f),
         e = "server" => \A k \in 1..Len(wire["client"]) :
           wire["client"][k].type = "OPEN" => Conn(wire["client"][k]) # Conn(f),
         \A k \in 1..Len(wire'["client"]) : wire'["client"][k].type = "OPEN" =>
           up'[<<"server", Conn(wire'["client"][k])>>] = "off"
  PROVE  OpenInv'
<1> SUFFICES ASSUME NEW k \in 1..Len(wire'["client"]), wire'["client"][k].type = "OPEN"
             PROVE  /\ \A l \in 1..(k - 1) : Conn(wire'["client"][l]) # Conn(wire'["client"][k])
                    /\ \A l \in 1..Len(wire'["server"]) :
                         Conn(wire'["server"][l]) # Conn(wire'["client"][k])
  BY DEF OpenInv
<1>1. \A x \in Ends : Len(wire[x]) \in Nat
  BY DEF EndsInv, TypeInv, QueueTypes
<1>2. CASE e = "client"
  <2>1. CASE k + s \in 1..Len(wire["client"]) /\ wire'["client"][k] = wire["client"][k + s]
    <3>1. ASSUME NEW l \in 1..(k - 1)
          PROVE  l + s \in 1..(k + s - 1) /\ wire'["client"][l] = wire["client"][l + s]
      <4>1. /\ l \in 1..Len(wire'["client"]) /\ l + s \in 1..(k + s - 1)
            /\ l + s # Len(wire["client"]) + 1
        <5>1. /\ k \in Nat /\ Len(wire'["client"]) \in Nat /\ Len(wire["client"]) \in Nat
              /\ k <= Len(wire'["client"]) /\ k + s <= Len(wire["client"])
          BY <1>1, <2>1, EndsFacts
        <5>2. QED
          BY <5>1
      <4>2. QED
        BY <1>2, <4>1 DEF Moves
    <3>2. \A l \in 1..Len(wire'["server"]) :
            l + r \in 1..Len(wire["server"]) /\ wire'["server"][l] = wire["server"][l + r]
      BY <1>2, EndsFacts DEF Shifts
    <3>3. PICK j \in 1..Len(wire["client"]) : j = k + s
      BY <2>1
    <3>4. wire'["client"][k] = wire["client"][j] /\ wire["client"][j].type = "OPEN"
      BY <2>1, <3>3
    <3>5. /\ \A l \in 1..(j - 1) : Conn(wire["client"][l]) # Conn(wire["client"][j])
          /\ \A l \in 1..Len(wire["server"]) : Conn(wire["server"][l]) # Conn(wire["client"][j])
      BY <3>4 DEF EndsInv, OpenInv
    <3>6. QED
      BY <3>1, <3>2, <3>3, <3>4, <3>5
  <2>2. CASE k + s = Len(wire["client"]) + 1 /\ wire'["client"][k] = f
    <3>1. \A l \in 1..(k - 1) :
            l + s \in 1..Len(wire["client"]) /\ wire'["client"][l] = wire["client"][l + s]
      BY <1>1, <1>2, <2>2, SMTT(30) DEF Moves
    <3>2. \A l \in 1..Len(wire'["server"]) :
            l + r \in 1..Len(wire["server"]) /\ wire'["server"][l] = wire["server"][l + r]
      BY <1>2, EndsFacts DEF Shifts
    <3>3. QED
      BY <1>2, <2>2, <3>1, <3>2, EndsFacts
  <2>3. QED
    BY <1>2, <2>1, <2>2 DEF Moves
<1>3. CASE e = "server"
  <2>1. k + r \in 1..Len(wire["client"]) /\ wire'["client"][k] = wire["client"][k + r]
    BY <1>3, EndsFacts DEF Shifts
  <2>2. \A l \in 1..(k - 1) : l + r \in 1..(k + r - 1) /\ wire'["client"][l] = wire["client"][l + r]
    <3>1. Shifts("client", r) /\ Len(wire'["client"]) \in Nat /\ k \in 1..Len(wire'["client"])
      BY <1>3, EndsFacts
    <3>2. QED
      BY <3>1 DEF Shifts
  <2>3. \A l \in 1..Len(wire'["server"]) :
          \/ l + s \in 1..Len(wire["server"]) /\ wire'["server"][l] = wire["server"][l + s]
          \/ wire'["server"][l] = f
    BY <1>3 DEF Moves
  <2>4. PICK j \in 1..Len(wire["client"]) : j = k + r
    BY <2>1
  <2>5. wire'["client"][k] = wire["client"][j] /\ wire["client"][j].type = "OPEN"
    BY <2>1, <2>4
  <2>6. /\ \A l \in 1..(j - 1) : Conn(wire["client"][l]) # Conn(wire["client"][j])
        /\ \A l \in 1..Len(wire["server"]) : Conn(wire["server"][l]) # Conn(wire["client"][j])
        /\ Conn(f) # Conn(wire["client"][j])
    BY <1>3, <2>5 DEF EndsInv, OpenInv
  <2>7. \A l \in 1..(k - 1) : Conn(wire'["client"][l]) # Conn(wire'["client"][k])
    BY <2>2, <2>4, <2>5, <2>6
  <2>8. \A l \in 1..Len(wire'["server"]) : Conn(wire'["server"][l]) # Conn(wire'["client"][k])
    BY <2>3, <2>5, <2>6
  <2>9. QED
    BY <2>7, <2>8
<1>4. QED
  BY <1>2, <1>3, EndsFacts

(* A frame of c that goes out keeps the first layer, if c has begun and    *)
(* its OPEN, from the server's side, is not still on its way.              *)
LEMMA SendKept ==
  ASSUME EndsInv, UNCHANGED idOf, NEW e \in Ends, NEW c \in Conns,
         NEW t \in {"OPEN", "DATA", "CLOSE"}, NEW n \in Nat,
         Send(e, Frame(t, c, <<e, c>>, n)),
         \A d \in Conns : up[<<"client", d>>] \notin {"off", "opening"} =>
                          up'[<<"client", d>>] \notin {"off", "opening"},
         \A d \in Conns : up[<<"server", d>>] = "off" => up'[<<"server", d>>] = "off",
         up'[<<"client", c>>] \notin {"off", "opening"},
         t = "OPEN" => e = "client" /\ up[<<"client", c>>] = "opening",
         e = "server" => up[<<"server", c>>] # "off"
  PROVE  FrameInv' /\ OpenInv' /\ wire' \in [Ends -> Seq(Frames)]
         /\ \A x \in Ends : Len(wire'[x]) <= WireCap
<1> DEFINE f == Frame(t, c, <<e, c>>, n)
<1>1. /\ f \in Frames /\ f.type = t /\ f.id = idOf[c] /\ f.load[1] = <<e, c>>
      /\ Conn(f) = c
  BY FrameType, EndsFacts DEF EndsInv, Conn
<1> HIDE DEF f
<1>2. TypeInv /\ Send(e, f)
  BY DEF EndsInv, f
<1>3. Moves(e, 0, f) /\ Shifts(Other(e), 0)
  BY <1>1, <1>2, SendMoves
<1>4. f.load[1][1] = e
  BY <1>1
<1>5. FrameInv'
  BY <1>1, <1>3, <1>4, FramesKept
<1>6. wire' \in [Ends -> Seq(Frames)] /\ \A x \in Ends : Len(wire'[x]) <= WireCap
  <2>1. Len(wire'[e]) <= WireCap /\ wire'[Other(e)] = wire[Other(e)]
        /\ wire' \in [Ends -> Seq(Frames)]
    BY <1>1, <1>2, SendFacts
  <2>2. QED
    BY <1>2, <2>1, EndsFacts DEF TypeInv, QueueTypes
<1>7. \A x \in Ends : Len(wire'[x]) \in Nat
  BY <1>6
<1>8. t = "OPEN" => \A x \in Ends : \A k \in 1..Len(wire[x]) : Conn(wire[x][k]) # c
  BY DEF EndsInv, FrameInv
<1>9. t = "OPEN" => up[<<"server", c>>] = "off"
  BY DEF EndsInv, StatusInv
<1>10. \A k \in 1..Len(wire["client"]) : wire["client"][k].type = "OPEN" =>
         /\ up[<<"server", Conn(wire["client"][k])>>] = "off"
         /\ Conn(wire["client"][k]) \in Conns
  BY WireFacts, EndsFacts DEF EndsInv, OpenInv
<1>11. \A k \in 1..Len(wire'["client"]) : wire'["client"][k].type = "OPEN" =>
         up'[<<"server", Conn(wire'["client"][k])>>] = "off"
  <2>1. CASE e = "client"
    BY <1>1, <1>3, <1>9, <1>10, <2>1 DEF Moves
  <2>2. CASE e = "server"
    BY <1>3, <1>10, <2>2, EndsFacts DEF Shifts
  <2>3. QED
    BY <2>1, <2>2, EndsFacts
<1>12. OpenInv'
  BY <1>1, <1>3, <1>7, <1>8, <1>9, <1>10, <1>11, OpensKept
<1>13. QED
  BY <1>5, <1>6, <1>12

(* A frame that is taken keeps it too.                                     *)
LEMMA TakenKept ==
  ASSUME EndsInv, UNCHANGED idOf, NEW e \in Ends, wire[Other(e)] # <<>>, wire' = Taken(e),
         \A d \in Conns : up'[<<"client", d>>] = up[<<"client", d>>],
         \A d \in Conns : up[<<"server", d>>] = "off" =>
           \/ up'[<<"server", d>>] = "off"
           \/ /\ e = "server" /\ Conn(wire["client"][1]) = d
              /\ wire["client"][1].type = "OPEN"
  PROVE  FrameInv' /\ OpenInv' /\ wire' \in [Ends -> Seq(Frames)]
         /\ \A x \in Ends : Len(wire'[x]) <= WireCap
<1>1. TypeInv /\ Other(e) \in Ends /\ Other(Other(e)) = e
  BY EndsFacts DEF EndsInv
<1>2. /\ Shifts(Other(e), 1) /\ Shifts(e, 0) /\ 1 \in 1..Len(wire[Other(e)])
      /\ wire' \in [Ends -> Seq(Frames)] /\ \A x \in Ends : Len(wire'[x]) <= WireCap
  BY <1>1, TakenMoves
<1> DEFINE f == wire[Other(e)][1]
<1>3. /\ f \in Frames /\ Conn(f) \in Conns /\ f.load[1][1] = Other(e) /\ f.id = idOf[Conn(f)]
      /\ up[<<"client", Conn(f)>>] \notin {"off", "opening"}
      /\ f.type = "OPEN" => Other(e) = "client"
  BY <1>1, <1>2, WireFacts DEF EndsInv, FrameInv
<1>4. \A x \in Ends : Len(wire'[x]) \in Nat
  BY <1>2
<1>5. \A k \in 1..Len(wire'["client"]) : wire'["client"][k].type = "OPEN" =>
        up'[<<"server", Conn(wire'["client"][k])>>] = "off"
  <2>1. \A k \in 1..Len(wire["client"]) : wire["client"][k].type = "OPEN" =>
          /\ up[<<"server", Conn(wire["client"][k])>>] = "off"
          /\ Conn(wire["client"][k]) \in Conns
          /\ k > 1 => Conn(wire["client"][k]) # Conn(wire["client"][1])
    <3>1. Len(wire["client"]) \in Nat
      BY <1>1, EndsFacts DEF TypeInv, QueueTypes
    <3>2. QED
      BY <1>1, <3>1, WireFacts, EndsFacts DEF EndsInv, OpenInv
  <2>2. CASE e = "client"
    BY <1>2, <2>1, <2>2, EndsFacts DEF Shifts
  <2>3. CASE e = "server"
    <3>1. \A k \in 1..Len(wire'["client"]) :
            k + 1 \in 1..Len(wire["client"]) /\ k + 1 > 1 /\ wire'["client"][k] = wire["client"][k + 1]
      BY <1>2, <2>3, EndsFacts DEF Shifts
    <3>2. QED
      BY <2>1, <3>1, ZenonT(60)
  <2>4. QED
    BY <2>2, <2>3, EndsFacts
<1>6. FrameInv'
  <2>1. Moves(Other(e), 1, f) /\ Shifts(Other(Other(e)), 0)
    BY <1>1, <1>2 DEF Shifts, Moves
  <2>2. up'[<<"client", Conn(f)>>] \notin {"off", "opening"}
    BY <1>3
  <2> HIDE DEF f
  <2>3. QED
    BY <1>1, <1>3, <2>1, <2>2, FramesKept
<1>7. OpenInv'
  <2>1. ASSUME NEW k \in 1..Len(wire'["client"]), wire'["client"][k].type = "OPEN"
        PROVE  /\ \A l \in 1..(k - 1) : Conn(wire'["client"][l]) # Conn(wire'["client"][k])
               /\ \A l \in 1..Len(wire'["server"]) :
                    Conn(wire'["server"][l]) # Conn(wire'["client"][k])
    <3>1. PICK s \in {0, 1} : Shifts("client", s)
      BY <1>2, EndsFacts
    <3>2. PICK r \in {0, 1} : Shifts("server", r)
      BY <1>2, EndsFacts
    <3>3. PICK j \in 1..Len(wire["client"]) : j = k + s /\ wire'["client"][k] = wire["client"][j]
      BY <3>1 DEF Shifts
    <3>4. /\ \A l \in 1..(j - 1) : Conn(wire["client"][l]) # Conn(wire["client"][j])
          /\ \A l \in 1..Len(wire["server"]) : Conn(wire["server"][l]) # Conn(wire["client"][j])
      BY <2>1, <3>3 DEF EndsInv, OpenInv
    <3>5. \A l \in 1..(k - 1) : l + s \in 1..(j - 1) /\ wire'["client"][l] = wire["client"][l + s]
      <4>1. Len(wire'["client"]) \in Nat
        BY <1>4, EndsFacts
      <4>2. QED
        BY <3>1, <3>3, <4>1 DEF Shifts
    <3>6. \A l \in 1..Len(wire'["server"]) :
            l + r \in 1..Len(wire["server"]) /\ wire'["server"][l] = wire["server"][l + r]
      BY <3>2 DEF Shifts
    <3>7. \A l \in 1..(k - 1) : Conn(wire'["client"][l]) # Conn(wire'["client"][k])
      BY <3>3, <3>4, <3>5
    <3>8. \A l \in 1..Len(wire'["server"]) : Conn(wire'["server"][l]) # Conn(wire'["client"][k])
      BY <3>3, <3>4, <3>6
    <3>9. QED
      BY <3>7, <3>8
  <2>2. QED
    BY <1>5, <2>1 DEF OpenInv
<1>8. QED
  BY <1>2, <1>6, <1>7

LEMMA WireKept ==
  ASSUME EndsInv, UNCHANGED <<wire, idOf>>,
         \A d \in Conns : up[<<"client", d>>] \notin {"off", "opening"} =>
                          up'[<<"client", d>>] \notin {"off", "opening"},
         \A d \in Conns : up[<<"server", d>>] = "off" => up'[<<"server", d>>] = "off"
  PROVE  FrameInv' /\ OpenInv'
<1>1. \A e \in Ends : \A k \in 1..Len(wire[e]) : Conn(wire[e][k]) \in Conns
  BY WireFacts DEF EndsInv
<1>2. FrameInv'
  BY <1>1 DEF EndsInv, FrameInv
<1>3. OpenInv'
  BY <1>1, EndsFacts DEF EndsInv, OpenInv
<1>4. QED
  BY <1>2, <1>3

(* Ids stay while nobody registers, and entries only go.                   *)
LEMMA IdsKept ==
  ASSUME EndsInv, UNCHANGED <<nextId, idOf>>,
         \A c \in Conns : up'[<<"client", c>>] = "off" <=> up[<<"client", c>>] = "off"
  PROVE  /\ IdInv' /\ Registered' = Registered
         /\ (\A e \in Ends : \A i \in Ids :
               entry'[e][i] # NoConn => entry'[e][i] = entry[e][i]) => EntryInv'
<1>1. Registered' = Registered
  BY DEF Registered
<1>2. QED
  BY <1>1 DEF EndsInv, IdInv, EntryInv

LEMMA ClientOpenEnds ==
  ASSUME EndsInv, NEW c \in Conns, ClientOpen(c)
  PROVE  EndsInv'
<1> USE EndsFacts DEF EndsInv
<1> DEFINE p == <<"client", c>>
           q == <<"server", c>>
<1>1. /\ p \in Pipes /\ q \in Pipes /\ up[p] = "opening"
      /\ UNCHANGED <<nextId, idOf, entry, chan, sent, got, broken, bad, dead>>
  BY DEF ClientOpen
<1>2. CASE /\ Send("client", Frame("OPEN", c, p, 0))
           /\ up' = [up EXCEPT ![p] = "read"] /\ down' = [down EXCEPT ![q] = "recv"]
  <2>1. TaskTypes'
    BY <1>1, <1>2 DEF TypeInv, TaskTypes
  <2>2. \A d \in Conns :
          /\ up[<<"client", d>>] \notin {"off", "opening"} =>
               up'[<<"client", d>>] \notin {"off", "opening"}
          /\ up'[<<"server", d>>] = up[<<"server", d>>]
          /\ up'[<<"client", d>>] = "off" <=> up[<<"client", d>>] = "off"
    BY <1>1, <1>2 DEF TypeInv, TaskTypes
  <2>3. up'[p] = "read"
    BY <1>1, <1>2 DEF TypeInv, TaskTypes
  <2>4. FrameInv' /\ OpenInv' /\ wire' \in [Ends -> Seq(Frames)]
        /\ \A x \in Ends : Len(wire'[x]) <= WireCap
    BY <1>1, <1>2, <2>2, <2>3, SendKept
  <2>5. QueueTypes'
    BY <1>1, <2>4 DEF TypeInv, QueueTypes
  <2>6. IdInv' /\ EntryInv'
    BY <1>1, <2>2, IdsKept
  <2>7. StatusInv'
    BY <1>1, <1>2 DEF TypeInv, TaskTypes, StatusInv
  <2>8. DeadInv'
    BY <1>1, <1>2 DEF DeadInv, Send
  <2>9. QED
    BY <2>1, <2>4, <2>5, <2>6, <2>7, <2>8 DEF TypeInv
<1>3. CASE /\ dead /\ UNCHANGED wire
           /\ up' = [up EXCEPT ![p] = "done"] /\ down' = [down EXCEPT ![q] = "gone"]
  <2>1. TypeInv'
    BY <1>1, <1>3 DEF TypeInv, TaskTypes, QueueTypes
  <2>2. \A d \in Conns :
          /\ up[<<"client", d>>] \notin {"off", "opening"} =>
               up'[<<"client", d>>] \notin {"off", "opening"}
          /\ up'[<<"server", d>>] = up[<<"server", d>>]
          /\ up'[<<"client", d>>] = "off" <=> up[<<"client", d>>] = "off"
    BY <1>1, <1>3 DEF TypeInv, TaskTypes
  <2>3. FrameInv' /\ OpenInv'
    BY <1>1, <1>3, <2>2, WireKept
  <2>4. IdInv' /\ EntryInv'
    BY <1>1, <2>2, IdsKept
  <2>5. StatusInv'
    BY <1>1, <1>3 DEF TypeInv, TaskTypes, StatusInv, DeadInv
  <2>6. DeadInv'
    BY <1>1, <1>3 DEF DeadInv
  <2>7. QED
    BY <2>1, <2>3, <2>4, <2>5, <2>6
<1>4. QED
  BY <1>2, <1>3 DEF ClientOpen

LEMMA DialOkEnds ==
  ASSUME EndsInv, NEW c \in Conns, DialOk(c)
  PROVE  EndsInv'
<1> USE EndsFacts DEF EndsInv, DialOk
<1>1. TypeInv'
  BY DEF TypeInv, TaskTypes, QueueTypes
<1>2. \A d \in Conns : /\ up'[<<"client", d>>] = up[<<"client", d>>]
                       /\ up[<<"server", d>>] = "off" => up'[<<"server", d>>] = "off"
  BY DEF TypeInv, TaskTypes
<1>3. FrameInv' /\ OpenInv'
  BY <1>2, WireKept
<1>4. IdInv' /\ EntryInv'
  BY <1>2, IdsKept
<1>5. StatusInv'
  BY DEF TypeInv, TaskTypes, StatusInv
<1>6. DeadInv'
  BY DEF DeadInv
<1>7. QED
  BY <1>1, <1>3, <1>4, <1>5, <1>6

LEMMA DialFailsEnds ==
  ASSUME EndsInv, NEW c \in Conns, DialFails(c)
  PROVE  EndsInv'
<1> USE EndsFacts DEF EndsInv
<1> DEFINE p == <<"server", c>>
<1>1. /\ up[p] = "dial" /\ up' = [up EXCEPT ![p] = "done"]
      /\ down' = [down EXCEPT ![<<"client", c>>] = "gone"]
      /\ entry' = [entry EXCEPT !["server"][idOf[c]] = NoConn]
      /\ broken' = broken \cup {c}
      /\ UNCHANGED <<nextId, idOf, chan, sent, got, bad, dead>>
      /\ Send("server", Frame("CLOSE", c, p, 0)) \/ (dead /\ UNCHANGED wire)
      /\ <<"client", c>> \in Pipes /\ p \in Pipes
  BY DEF DialFails, BestEffort, Breaks
<1>2. TaskTypes'
  BY <1>1 DEF TypeInv, TaskTypes
<1>3. \A d \in Conns : /\ up'[<<"client", d>>] = up[<<"client", d>>]
                       /\ up[<<"server", d>>] = "off" => up'[<<"server", d>>] = "off"
  BY <1>1 DEF TypeInv, TaskTypes
<1>4. FrameInv' /\ OpenInv' /\ wire' \in [Ends -> Seq(Frames)]
      /\ \A x \in Ends : Len(wire'[x]) <= WireCap
  <2>1. CASE Send("server", Frame("CLOSE", c, p, 0))
    <3>1. up'[<<"client", c>>] \notin {"off", "opening"} /\ up[p] # "off"
      BY <1>1, <1>3 DEF StatusInv
    <3>2. QED
      BY <1>1, <1>3, <2>1, <3>1, SendKept
  <2>2. CASE UNCHANGED wire
    BY <1>1, <1>3, <2>2, WireKept DEF TypeInv, QueueTypes
  <2>3. QED
    BY <1>1, <2>1, <2>2
<1>5. QueueTypes'
  BY <1>1, <1>4 DEF TypeInv, QueueTypes
<1>6. IdInv' /\ EntryInv'
  <2>1. \A e \in Ends : \A i \in Ids : entry'[e][i] # NoConn => entry'[e][i] = entry[e][i]
    BY <1>1 DEF TypeInv, TaskTypes
  <2>2. QED
    BY <1>1, <1>3, <2>1, IdsKept
<1>7. StatusInv'
  BY <1>1 DEF TypeInv, TaskTypes, StatusInv
<1>8. DeadInv'
  BY <1>1 DEF DeadInv, Send, TypeInv, TaskTypes
<1>9. QED
  BY <1>2, <1>4, <1>5, <1>6, <1>7, <1>8 DEF TypeInv

LEMMA UplinkEnds ==
  ASSUME EndsInv, NEW p \in Pipes, UplinkData(p) \/ UplinkEnd(p)
  PROVE  EndsInv'
<1> USE EndsFacts DEF EndsInv
<1>1. PICK e \in Ends, c \in Conns : p = <<e, c>> /\ p[1] = e /\ p[2] = c
  OBVIOUS
<1>2. /\ up[p] = "read" /\ UNCHANGED <<nextId, idOf, entry, chan, down, got, broken, bad, dead>>
      /\ up' = up \/ up' = [up EXCEPT ![p] = "done"]
      /\ sent' = sent \/ sent' = [sent EXCEPT ![p] = @ + 1]
  BY DEF UplinkData, UplinkEnd
<1>3. TaskTypes'
  BY <1>2 DEF TypeInv, TaskTypes
<1>4. \/ \E n \in Nat : Send(e, Frame("DATA", c, <<e, c>>, n))
      \/ Send(e, Frame("CLOSE", c, <<e, c>>, 0))
      \/ dead /\ UNCHANGED wire
  BY <1>1 DEF UplinkData, UplinkEnd, BestEffort, TypeInv, TaskTypes
<1>5. \A d \in Conns :
        /\ up[<<"client", d>>] \notin {"off", "opening"} =>
             up'[<<"client", d>>] \notin {"off", "opening"}
        /\ up'[<<"client", d>>] = "off" <=> up[<<"client", d>>] = "off"
        /\ up'[<<"server", d>>] = "off" <=> up[<<"server", d>>] = "off"
  BY <1>2, ZenonT(60) DEF TypeInv, TaskTypes
<1>6. up'[<<"client", c>>] \notin {"off", "opening"} /\ (e = "server" => up[<<"server", c>>] # "off")
  <2>1. up[<<"client", c>>] \notin {"off", "opening"}
    BY <1>1, <1>2 DEF StatusInv
  <2>2. QED
    BY <1>1, <1>2, <1>5, <2>1
<1>7. FrameInv' /\ OpenInv' /\ wire' \in [Ends -> Seq(Frames)]
      /\ \A x \in Ends : Len(wire'[x]) <= WireCap
  <2>1. ASSUME NEW n \in Nat, NEW t \in {"DATA", "CLOSE"}, Send(e, Frame(t, c, <<e, c>>, n))
        PROVE  FrameInv' /\ OpenInv' /\ wire' \in [Ends -> Seq(Frames)]
               /\ \A x \in Ends : Len(wire'[x]) <= WireCap
    BY <1>2, <1>5, <1>6, <2>1, SendKept
  <2>2. CASE UNCHANGED wire
    BY <1>2, <1>5, <2>2, WireKept DEF TypeInv, QueueTypes
  <2>3. QED
    BY <1>4, <2>1, <2>2
<1>8. QueueTypes'
  BY <1>2, <1>7 DEF TypeInv, QueueTypes
<1>9. IdInv' /\ EntryInv'
  BY <1>2, <1>5, IdsKept
<1>10. StatusInv'
  <2>1. \A x \in Pipes : up'[x] = up[x] \/ (up[x] = "read" /\ up'[x] = "done")
    BY <1>2 DEF TypeInv, TaskTypes
  <2>2. \A d \in Conns :
          /\ up'[<<"client", d>>] = up[<<"client", d>>]
             \/ (up[<<"client", d>>] = "read" /\ up'[<<"client", d>>] = "done")
          /\ up'[<<"server", d>>] = up[<<"server", d>>]
             \/ (up[<<"server", d>>] = "read" /\ up'[<<"server", d>>] = "done")
    BY <2>1
  <2>3. down' = down /\ broken' = broken
    BY <1>2
  <2>4. QED
    BY <2>2, <2>3 DEF StatusInv
<1>11. DeadInv'
  BY <1>2, <1>4 DEF DeadInv, Send
<1>12. QED
  BY <1>3, <1>7, <1>8, <1>9, <1>10, <1>11 DEF TypeInv

LEMMA DownlinkEnds ==
  ASSUME EndsInv, NEW p \in Pipes, Downlink(p)
  PROVE  EndsInv'
<1> USE EndsFacts DEF EndsInv
<1>1. UNCHANGED <<nextId, idOf, entry, wire, up, sent, bad, dead>>
  BY DEF Downlink, DownlinkWrite, DownlinkFails, DownlinkEnd
<1>2. /\ down[p] \in {"recv", "abandoned"}
      /\ down' = down \/ down' = [down EXCEPT ![p] = "abandoned"]
                      \/ down' = [down EXCEPT ![p] = "done"]
      /\ down' = [down EXCEPT ![p] = "abandoned"] => p[2] \in broken'
      /\ broken' = broken \/ broken' = broken \cup {p[2]}
  BY DEF Downlink, DownlinkWrite, DownlinkFails, DownlinkEnd, Breaks, TypeInv, TaskTypes
<1>3. QueueTypes'
  <2>1. CASE DownlinkWrite(p)
    <3>1. chan[p] \in Seq(Pipes \X Nat) /\ chan[p] # <<>> /\ got[p] \in Seq(Pipes \X Nat)
          /\ Len(chan[p]) <= InboundCap
      BY <2>1 DEF DownlinkWrite, TypeInv, QueueTypes
    <3>2. /\ Head(chan[p]) \in Pipes \X Nat /\ Tail(chan[p]) \in Seq(Pipes \X Nat)
          /\ Len(Tail(chan[p])) = Len(chan[p]) - 1 /\ Len(chan[p]) \in Nat
      BY <3>1, HeadTailProperties
    <3>3. Append(got[p], Head(chan[p])) \in Seq(Pipes \X Nat)
      BY <3>1, <3>2, AppendProperties
    <3>4. Len(Tail(chan[p])) <= InboundCap
      BY <3>1, <3>2, MuxAssumption
    <3>5. QED
      BY <2>1, <3>2, <3>3, <3>4 DEF DownlinkWrite, TypeInv, QueueTypes
  <2>2. CASE DownlinkFails(p)
    <3>1. <<>> \in Seq(Pipes \X Nat) /\ Len(<<>>) <= InboundCap
      BY EmptySeq, MuxAssumption
    <3>2. QED
      BY <2>2, <3>1 DEF DownlinkFails, TypeInv, QueueTypes
  <2>3. CASE DownlinkEnd(p)
    BY <2>3 DEF DownlinkEnd, TypeInv, QueueTypes
  <2>4. QED
    BY <2>1, <2>2, <2>3 DEF Downlink
<1>4. TaskTypes'
  BY <1>1, <1>2 DEF TypeInv, TaskTypes
<1>5. FrameInv' /\ OpenInv'
  BY <1>1, WireKept
<1>6. IdInv' /\ EntryInv'
  BY <1>1, IdsKept
<1>7. StatusInv'
  <2>1. \A x \in Pipes :
          \/ down'[x] = down[x]
          \/ /\ down[x] \in {"recv", "abandoned"}
             /\ down'[x] = "done" \/ (down'[x] = "abandoned" /\ x[2] \in broken')
    BY <1>2 DEF TypeInv, TaskTypes
  <2>2. broken \subseteq broken'
    BY <1>2
  <2>3. "client" \in Ends /\ "server" \in Ends /\ up' = up
    BY <1>1
  <2>4. QED
    BY <2>1, <2>2, <2>3 DEF StatusInv
<1>8. DeadInv'
  <2>1. broken = Conns => broken' = Conns
    BY <1>2
  <2>2. QED
    BY <1>1, <2>1 DEF DeadInv
<1>9. QED
  BY <1>3, <1>4, <1>5, <1>6, <1>7, <1>8 DEF TypeInv

(* The frame that arrives, and whose registry entry it finds.              *)
LEMMA ArrivingFacts ==
  ASSUME EndsInv, NEW e \in Ends, wire[Other(e)] # <<>>
  PROVE  /\ Arriving(e) = wire[Other(e)][1] /\ 1 \in 1..Len(wire[Other(e)])
         /\ Arriving(e) \in Frames /\ Conn(Arriving(e)) \in Registered
         /\ Conn(Arriving(e)) \in Conns
         /\ up[<<"client", Conn(Arriving(e))>>] \notin {"off", "opening"}
         /\ Arriving(e).id = idOf[Conn(Arriving(e))] /\ Arriving(e).id \in Ids
         /\ Arriving(e).load = <<Arriving(e).load[1], Arriving(e).load[2]>>
         /\ Arriving(e).load[1] = <<Other(e), Conn(Arriving(e))>>
         /\ Arriving(e).load[2] \in Nat
         /\ Addressee(e) = NoConn \/ Addressee(e) = Conn(Arriving(e))
         /\ Addressee(e) # NoConn => Inbound(e) = Arriving(e).load[1]
         /\ Arriving(e).type = "OPEN" => e = "server"
         /\ ~dead
<1>1. TypeInv /\ Other(e) \in Ends
  BY EndsFacts DEF EndsInv
<1>2. Arriving(e) = wire[Other(e)][1] /\ 1 \in 1..Len(wire[Other(e)])
  BY <1>1, TakenFacts DEF Arriving
<1>3. /\ Arriving(e) \in Frames /\ Conn(Arriving(e)) \in Conns /\ Arriving(e).id \in Ids
      /\ Arriving(e).load[2] \in Nat
      /\ Arriving(e).load = <<Arriving(e).load[1], Arriving(e).load[2]>>
      /\ Arriving(e).load[1] = <<Arriving(e).load[1][1], Conn(Arriving(e))>>
  BY <1>1, <1>2, WireFacts
<1>4. /\ Arriving(e).load[1][1] = Other(e) /\ Arriving(e).id = idOf[Conn(Arriving(e))]
      /\ up[<<"client", Conn(Arriving(e))>>] \notin {"off", "opening"}
      /\ Arriving(e).type = "OPEN" => Other(e) = "client"
  BY <1>1, <1>2 DEF EndsInv, FrameInv
<1>5. Conn(Arriving(e)) \in Registered
  BY <1>3, <1>4 DEF Registered
<1>6. Addressee(e) = NoConn \/ Addressee(e) = Conn(Arriving(e))
  BY <1>3, <1>4, <1>5 DEF EndsInv, EntryInv, IdInv, Addressee
<1>7. QED
  BY <1>1, <1>2, <1>3, <1>4, <1>5, <1>6, EndsFacts DEF EndsInv, DeadInv, Inbound

LEMMA ReaderOpenEnds ==
  ASSUME EndsInv, NEW e \in Ends, ReaderOpen(e)
  PROVE  EndsInv'
<1> USE EndsFacts DEF EndsInv
<1> DEFINE c == Conn(Arriving(e))
<1>1. wire[Other(e)] # <<>> /\ Arriving(e).type = "OPEN" /\ wire' = Taken(e)
  BY DEF ReaderOpen, Incoming, Arriving
<1>2. /\ e = "server" /\ c \in Conns /\ c \in Registered /\ Arriving(e).id = idOf[c]
      /\ Arriving(e).id \in Ids /\ Arriving(e) = wire["client"][1] /\ 1 \in 1..Len(wire["client"])
      /\ up[<<"client", c>>] \notin {"off", "opening"} /\ ~dead
  BY <1>1, ArrivingFacts
<1>3. up[<<"server", c>>] = "off"
  BY <1>1, <1>2 DEF OpenInv
<1>4. /\ entry' = [entry EXCEPT !["server"][Arriving(e).id] = c]
      /\ up' = [up EXCEPT ![<<"server", c>>] = "dial"]
      /\ down' = [down EXCEPT ![<<"client", c>>] = "wait"]
      /\ UNCHANGED <<nextId, idOf, chan, sent, got, broken, bad, dead>>
  BY <1>2 DEF ReaderOpen, Conn
<1> HIDE DEF c
<1>5. TaskTypes'
  BY <1>2, <1>4 DEF TypeInv, TaskTypes
<1>6. \A d \in Conns :
        /\ up'[<<"client", d>>] = up[<<"client", d>>]
        /\ d # c => up'[<<"server", d>>] = up[<<"server", d>>]
  BY <1>2, <1>4 DEF TypeInv, TaskTypes
<1>7. FrameInv' /\ OpenInv' /\ wire' \in [Ends -> Seq(Frames)]
      /\ \A x \in Ends : Len(wire'[x]) <= WireCap
  <2>1. Conn(wire["client"][1]) = c /\ wire["client"][1].type = "OPEN"
    BY <1>1, <1>2 DEF c
  <2>2. QED
    BY <1>1, <1>2, <1>4, <1>6, <2>1, TakenKept
<1>8. QueueTypes'
  BY <1>4, <1>7 DEF TypeInv, QueueTypes
<1>9. IdInv' /\ Registered' = Registered
  BY <1>4, <1>6, IdsKept
<1>10. EntryInv'
  BY <1>2, <1>4, <1>9 DEF EntryInv, TypeInv, TaskTypes
<1>11. StatusInv'
  BY <1>2, <1>3, <1>4 DEF TypeInv, TaskTypes, StatusInv
<1>12. DeadInv'
  BY <1>2, <1>4 DEF DeadInv
<1>13. QED
  BY <1>5, <1>7, <1>8, <1>9, <1>10, <1>11, <1>12 DEF TypeInv

LEMMA ReaderDataEnds ==
  ASSUME EndsInv, NEW e \in Ends, ReaderData(e)
  PROVE  EndsInv'
<1> USE EndsFacts DEF EndsInv
<1>1. /\ wire[Other(e)] # <<>> /\ wire' = Taken(e) /\ Addressee(e) # NoConn
      /\ UNCHANGED <<nextId, idOf, entry, up, down, sent, got, broken, bad, dead>>
      /\ chan' = [chan EXCEPT ![Inbound(e)] = Append(@, Arriving(e).load)]
      /\ Len(chan[Inbound(e)]) < InboundCap
  BY DEF ReaderData, Incoming, Listening
<1>2. Arriving(e).load \in Pipes \X Nat /\ Inbound(e) \in Pipes /\ ~dead
  BY <1>1, ArrivingFacts DEF Frames
<1>3. FrameInv' /\ OpenInv' /\ wire' \in [Ends -> Seq(Frames)]
      /\ \A x \in Ends : Len(wire'[x]) <= WireCap
  BY <1>1, TakenKept
<1>4. chan' \in [Pipes -> Seq(Pipes \X Nat)] /\ \A p \in Pipes : Len(chan'[p]) <= InboundCap
  <2>1. chan[Inbound(e)] \in Seq(Pipes \X Nat)
    BY <1>2 DEF TypeInv, QueueTypes
  <2>2. /\ Append(chan[Inbound(e)], Arriving(e).load) \in Seq(Pipes \X Nat)
        /\ Len(Append(chan[Inbound(e)], Arriving(e).load)) = Len(chan[Inbound(e)]) + 1
        /\ Len(chan[Inbound(e)]) \in Nat
    BY <1>2, <2>1, AppendProperties
  <2>3. Len(Append(chan[Inbound(e)], Arriving(e).load)) <= InboundCap
    BY <1>1, <2>2, MuxAssumption
  <2>4. QED
    BY <1>1, <1>2, <2>2, <2>3 DEF TypeInv, QueueTypes
<1>5. TypeInv'
  BY <1>1, <1>3, <1>4 DEF TypeInv, TaskTypes, QueueTypes
<1>6. IdInv' /\ EntryInv'
  BY <1>1, IdsKept
<1>7. StatusInv' /\ DeadInv'
  BY <1>1, <1>2 DEF StatusInv, DeadInv
<1>8. QED
  BY <1>3, <1>5, <1>6, <1>7

LEMMA ReaderStalledEnds ==
  ASSUME EndsInv, NEW e \in Ends, ReaderStalled(e)
  PROVE  EndsInv'
<1> USE EndsFacts DEF EndsInv
<1>1. /\ wire[Other(e)] # <<>> /\ Addressee(e) # NoConn
      /\ entry' = [entry EXCEPT ![e][Arriving(e).id] = NoConn]
      /\ broken' = broken \cup {Addressee(e)}
      /\ UNCHANGED <<nextId, idOf, wire, chan, up, down, sent, got, bad, dead>>
  BY DEF ReaderStalled, Incoming, Listening, Breaks
<1>2. Addressee(e) \in Conns /\ ~dead
  BY <1>1, ArrivingFacts
<1>3. TypeInv'
  BY <1>1, <1>2 DEF TypeInv, TaskTypes, QueueTypes
<1>4. FrameInv' /\ OpenInv'
  BY <1>1, WireKept
<1>5. IdInv' /\ EntryInv'
  <2>1. \A x \in Ends : \A i \in Ids : entry'[x][i] # NoConn => entry'[x][i] = entry[x][i]
    BY <1>1 DEF TypeInv, TaskTypes
  <2>2. QED
    BY <1>1, <2>1, IdsKept
<1>6. StatusInv' /\ DeadInv'
  BY <1>1, <1>2 DEF StatusInv, DeadInv
<1>7. QED
  BY <1>3, <1>4, <1>5, <1>6

(* A refusal takes a frame of one wire and adds a CLOSE to the other.      *)
LEMMA RefusalMoves ==
  ASSUME EndsInv, NEW e \in Ends, ReaderRefuses(e), NEW c, c = Conn(Arriving(e))
  PROVE  /\ Frame("CLOSE", c, <<e, c>>, 0) \in Frames
         /\ Moves(e, 0, Frame("CLOSE", c, <<e, c>>, 0)) /\ Shifts(Other(e), 1)
         /\ wire' \in [Ends -> Seq(Frames)] /\ \A x \in Ends : Len(wire'[x]) <= WireCap
<1> DEFINE f == Frame("CLOSE", c, <<e, c>>, 0)
<1>1. /\ wire[Other(e)] # <<>> /\ Len(wire[e]) < WireCap
      /\ wire' = [Taken(e) EXCEPT ![e] = Append(@, f)]
  BY DEF ReaderRefuses, Incoming, Room, Conn
<1>2. c \in Conns /\ f \in Frames
  BY <1>1, ArrivingFacts, FrameType, EndsFacts DEF EndsInv
<1> HIDE DEF f
<1> DEFINE o == Other(e)
<1>3. /\ o \in Ends /\ o # e /\ wire \in [Ends -> Seq(Frames)]
      /\ \A x \in Ends : x = e \/ x = o
      /\ \A x \in Ends : wire[x] \in Seq(Frames) /\ Len(wire[x]) \in Nat /\ Len(wire[x]) <= WireCap
  BY EndsFacts DEF EndsInv, TypeInv, QueueTypes
<1>4. Taken(e) = [wire EXCEPT ![o] = Tail(@)]
  BY DEF Taken
<1> HIDE DEF o
<1>5. wire'[e] = Append(wire[e], f) /\ wire'[o] = Tail(wire[o])
  BY <1>1, <1>3, <1>4
<1>6. /\ Append(wire[e], f) \in Seq(Frames) /\ Len(Append(wire[e], f)) = Len(wire[e]) + 1
      /\ \A k \in 1..Len(wire[e]) : Append(wire[e], f)[k] = wire[e][k]
      /\ Append(wire[e], f)[Len(wire[e]) + 1] = f
  BY <1>2, <1>3, AppendProperties
<1>7. /\ Tail(wire[o]) \in Seq(Frames) /\ Len(Tail(wire[o])) = Len(wire[o]) - 1
      /\ \A k \in 1..(Len(wire[o]) - 1) : Tail(wire[o])[k] = wire[o][k + 1]
  BY <1>1, <1>3, HeadTailProperties DEF o
<1>8. wire' \in [Ends -> Seq(Frames)]
  BY <1>1, <1>3, <1>4, <1>6, <1>7
<1>9. \A x \in Ends : Len(wire'[x]) <= WireCap
  <2>1. Len(wire'[e]) <= WireCap
    BY <1>1, <1>3, <1>5, <1>6, MuxAssumption
  <2>2. Len(wire'[o]) <= WireCap
    BY <1>3, <1>5, <1>7, MuxAssumption
  <2>3. QED
    BY <1>3, <2>1, <2>2
<1>10. Moves(e, 0, f)
  BY <1>3, <1>5, <1>6 DEF Moves
<1>11. Shifts(o, 1)
  BY <1>3, <1>5, <1>7 DEF Shifts
<1>12. QED
  BY <1>2, <1>8, <1>9, <1>10, <1>11 DEF f, o

LEMMA ReaderRefusesEnds ==
  ASSUME EndsInv, NEW e \in Ends, ReaderRefuses(e)
  PROVE  EndsInv'
<1> USE EndsFacts DEF EndsInv
<1> DEFINE c == Conn(Arriving(e))
           f == Frame("CLOSE", c, <<e, c>>, 0)
<1>1. /\ wire[Other(e)] # <<>> /\ ~dead /\ Arriving(e).type = "DATA"
      /\ UNCHANGED <<nextId, idOf, entry, chan, up, down, sent, got, broken, bad, dead>>
  BY DEF ReaderRefuses, Incoming, Arriving
<1>2. /\ c \in Conns /\ up[<<"client", c>>] \notin {"off", "opening"}
      /\ Arriving(e) = wire[Other(e)][1] /\ 1 \in 1..Len(wire[Other(e)])
  BY <1>1, ArrivingFacts
<1>3. /\ f \in Frames /\ Moves(e, 0, f) /\ Shifts(Other(e), 1)
      /\ wire' \in [Ends -> Seq(Frames)] /\ \A x \in Ends : Len(wire'[x]) <= WireCap
  BY RefusalMoves
<1>4. f.type = "CLOSE" /\ f.id = idOf[c] /\ f.load[1] = <<e, c>> /\ Conn(f) = c
  <2>1. \A x \in Conns : LET g == Frame("CLOSE", x, <<e, x>>, 0)
                         IN  /\ g.type = "CLOSE" /\ g.id = idOf[x] /\ g.load[1] = <<e, x>>
                             /\ Conn(g) = x
    BY FrameType DEF Conn
  <2> HIDE DEF c
  <2>2. QED
    BY <1>2, <2>1
<1>5. e = "server" => \A k \in 1..Len(wire["client"]) :
        wire["client"][k].type = "OPEN" => Conn(wire["client"][k]) # c
  <2> SUFFICES ASSUME e = "server", NEW k \in 1..Len(wire["client"]),
                      wire["client"][k].type = "OPEN"
               PROVE  Conn(wire["client"][k]) # c
    OBVIOUS
  <2>1. k # 1 /\ 1 \in 1..(k - 1)
    BY <1>1, <1>2
  <2>2. Conn(wire["client"][1]) # Conn(wire["client"][k])
    BY <2>1 DEF OpenInv
  <2>3. QED
    BY <1>2, <2>2
<1> HIDE DEF f, c
<1>6. FrameInv'
  <2>1. f.load[1][1] = e
    BY <1>4
  <2>2. QED
    BY <1>1, <1>2, <1>3, <1>4, <2>1, FramesKept
<1>7. OpenInv'
  <2>1. \A x \in Ends : Len(wire'[x]) \in Nat
    BY <1>3
  <2>2. \A k \in 1..Len(wire["client"]) : wire["client"][k].type = "OPEN" =>
          up[<<"server", Conn(wire["client"][k])>>] = "off"
    BY DEF OpenInv
  <2>3. \A k \in 1..Len(wire'["client"]) : wire'["client"][k].type = "OPEN" =>
          up'[<<"server", Conn(wire'["client"][k])>>] = "off"
    <3>1. CASE e = "client"
      BY <1>1, <1>3, <1>4, <2>2, <3>1 DEF Moves
    <3>2. CASE e = "server"
      BY <1>1, <1>3, <2>2, <3>2 DEF Shifts
    <3>3. QED
      BY <3>1, <3>2
  <2>4. QED
    BY <1>3, <1>4, <1>5, <2>1, <2>3, OpensKept
<1>8. TypeInv'
  BY <1>1, <1>3 DEF TypeInv, TaskTypes, QueueTypes
<1>9. IdInv' /\ EntryInv'
  BY <1>1, IdsKept
<1>10. StatusInv' /\ DeadInv'
  BY <1>1 DEF StatusInv, DeadInv
<1>11. QED
  BY <1>6, <1>7, <1>8, <1>9, <1>10

LEMMA ReaderCloseEnds ==
  ASSUME EndsInv, NEW e \in Ends, ReaderClose(e)
  PROVE  EndsInv'
<1> USE EndsFacts DEF EndsInv
<1>1. /\ wire[Other(e)] # <<>> /\ wire' = Taken(e)
      /\ entry' = [entry EXCEPT ![e][Arriving(e).id] = NoConn]
      /\ UNCHANGED <<nextId, idOf, chan, up, down, sent, got, broken, bad, dead>>
  BY DEF ReaderClose, Incoming
<1>2. ~dead
  BY <1>1, ArrivingFacts
<1>3. FrameInv' /\ OpenInv' /\ wire' \in [Ends -> Seq(Frames)]
      /\ \A x \in Ends : Len(wire'[x]) <= WireCap
  BY <1>1, TakenKept
<1>4. TypeInv'
  BY <1>1, <1>3 DEF TypeInv, TaskTypes, QueueTypes
<1>5. IdInv' /\ EntryInv'
  <2>1. \A x \in Ends : \A i \in Ids : entry'[x][i] # NoConn => entry'[x][i] = entry[x][i]
    BY <1>1 DEF TypeInv, TaskTypes
  <2>2. QED
    BY <1>1, <2>1, IdsKept
<1>6. StatusInv' /\ DeadInv'
  BY <1>1, <1>2 DEF StatusInv, DeadInv
<1>7. QED
  BY <1>3, <1>4, <1>5, <1>6

LEMMA BadRecordEnds ==
  ASSUME EndsInv, NEW e \in Ends, BadRecord(e)
  PROVE  EndsInv'
<1> USE EndsFacts DEF EndsInv
<1>1. /\ wire[Other(e)] # <<>> /\ wire' = Taken(e)
      /\ bad' = bad \cup {Conn(Arriving(e))} /\ broken' = broken \cup {Conn(Arriving(e))}
      /\ UNCHANGED <<nextId, idOf, entry, chan, up, down, sent, got, dead>>
  BY DEF BadRecord, Breaks, Conn
<1>2. ~dead /\ Conn(Arriving(e)) \in Conns
  BY <1>1, ArrivingFacts
<1>3. FrameInv' /\ OpenInv' /\ wire' \in [Ends -> Seq(Frames)]
      /\ \A x \in Ends : Len(wire'[x]) <= WireCap
  BY <1>1, TakenKept
<1>4. TypeInv'
  BY <1>1, <1>2, <1>3 DEF TypeInv, TaskTypes, QueueTypes
<1>5. IdInv' /\ EntryInv'
  BY <1>1, IdsKept
<1>6. StatusInv' /\ DeadInv'
  BY <1>1, <1>2 DEF StatusInv, DeadInv
<1>7. QED
  BY <1>3, <1>4, <1>5, <1>6

LEMMA DiesEnds ==
  ASSUME EndsInv, Dies
  PROVE  EndsInv'
<1> USE EndsFacts DEF EndsInv
<1>1. /\ wire' = [e \in Ends |-> <<>>] /\ entry' = [e \in Ends |-> [i \in Ids |-> NoConn]]
      /\ broken' = Conns
      /\ UNCHANGED <<nextId, idOf, chan, up, down, sent, got, bad>> /\ dead' = TRUE
  BY DEF Dies, Breaks, TypeInv, TaskTypes
<1>2. \A e \in Ends : wire'[e] = <<>> /\ Len(wire'[e]) = 0
  BY <1>1, EmptySeq
<1>3. TypeInv'
  <2>1. wire' \in [Ends -> Seq(Frames)]
    BY <1>1, EmptySeq
  <2>2. QED
    BY <1>1, <1>2, <2>1, MuxAssumption DEF TypeInv, TaskTypes, QueueTypes
<1>4. FrameInv' /\ OpenInv'
  BY <1>2 DEF FrameInv, OpenInv
<1>5. IdInv' /\ EntryInv'
  <2>1. \A x \in Ends : \A i \in Ids : entry'[x][i] = NoConn
    BY <1>1
  <2>2. QED
    BY <1>1, <2>1, IdsKept
<1>6. StatusInv'
  BY <1>1 DEF StatusInv
<1>7. DeadInv'
  BY <1>1 DEF DeadInv
<1>8. QED
  BY <1>3, <1>4, <1>5, <1>6, <1>7

LEMMA EndsNext == EndsInv /\ [Next]_vars => EndsInv'
<1> SUFFICES ASSUME EndsInv, [Next]_vars PROVE EndsInv'
  OBVIOUS
<1>1. ASSUME NEW c \in Conns, Opener(c) PROVE EndsInv'
  BY <1>1, ClientRegisterEnds, ClientOpenEnds, DialOkEnds, DialFailsEnds DEF Opener
<1>2. ASSUME NEW p \in Pipes, UplinkData(p) \/ UplinkEnd(p) \/ Downlink(p) PROVE EndsInv'
  BY <1>2, UplinkEnds, DownlinkEnds
<1>3. ASSUME NEW e \in Ends, Reader(e) \/ BadRecord(e) PROVE EndsInv'
  BY <1>3, ReaderOpenEnds, ReaderDataEnds, ReaderStalledEnds, ReaderRefusesEnds,
     ReaderCloseEnds, BadRecordEnds DEF Reader
<1>4. CASE Dies
  BY <1>4, DiesEnds
<1>5. CASE UNCHANGED vars
  <2>1. TypeInv' /\ StatusInv' /\ DeadInv'
    BY <1>5 DEF vars, EndsInv, TypeInv, TaskTypes, QueueTypes, StatusInv, DeadInv
  <2>2. FrameInv' /\ OpenInv'
    BY <1>5, WireKept DEF vars
  <2>3. IdInv' /\ EntryInv'
    BY <1>5, IdsKept DEF vars
  <2>4. QED
    BY <2>1, <2>2, <2>3 DEF EndsInv
<1>6. QED
  BY <1>1, <1>2, <1>3, <1>4, <1>5 DEF Next

LEMMA EndsInvariant == Spec => []EndsInv
  BY EndsInit, EndsNext, PTL DEF Spec

(* TypeOK holds of every reachable state: no queue exceeds its capacity.   *)
THEOREM MuxTypeCorrect == Spec => []TypeOK
<1>1. EndsInv => TypeOK
  BY WireFacts DEF EndsInv, TypeInv, TaskTypes, QueueTypes, TypeOK
<1>2. QED
  BY <1>1, EndsInvariant, PTL

-----------------------------------------------------------------------------
(* No stale entry.                                                         *)
LEMMA ShiftsMove ==
  ASSUME NEW e, NEW s, Shifts(e, s), NEW f
  PROVE  Moves(e, s, f)
  BY DEF Shifts, Moves

(* What ends a pipe that is still awaited survives a step that takes       *)
(* another frame, if any.                                                  *)
LEMMA StaleKept ==
  ASSUME EndsInv, StaleInv, NEW p \in Pipes, NEW s \in {0, 1}, NEW f, Moves(p[1], s, f),
         p[2] \notin bad, up[p] = "done", Awaited(p)', idOf'[p[2]] = idOf[p[2]],
         entry'[Other(p[1])][idOf[p[2]]] = p[2] => Awaited(p),
         f.type = "OPEN" => f.load[1] # p,
         s = 0 \/ ~Closing(p, 1)
  PROVE  \E k \in 1..Len(wire'[p[1]]) : Closing(p, k)'
<1>1. Awaited(p)
  <2>1. CASE entry'[Other(p[1])][idOf'[p[2]]] = p[2]
    BY <2>1
  <2>2. ASSUME NEW k \in 1..Len(wire'[p[1]]), wire'[p[1]][k].type = "OPEN",
               wire'[p[1]][k].load[1] = p
        PROVE  Awaited(p)
    BY <2>2, ZenonT(60) DEF Moves, Awaited, Opening
  <2>3. QED
    BY <2>1, <2>2 DEF Awaited, Opening
<1>2. PICK k \in 1..Len(wire[p[1]]) : Closing(p, k)
  BY <1>1 DEF StaleInv
<1>3. k > s
  BY <1>2
<1>4. k - s \in 1..Len(wire'[p[1]]) /\ wire'[p[1]][k - s] = wire[p[1]][k]
  BY <1>3 DEF Moves
<1>5. QED
  BY <1>2, <1>4 DEF Closing

LEMMA OnlyClientOpens ==
  ASSUME EndsInv, NEW e \in Ends, NEW k \in 1..Len(wire[e]), wire[e][k].type = "OPEN"
  PROVE  e = "client"
  BY DEF EndsInv, FrameInv, Ends

LEMMA StaleNext == EndsInv /\ EndsInv' /\ StaleInv /\ [Next]_vars => StaleInv'
<1> SUFFICES ASSUME EndsInv, EndsInv', StaleInv, [Next]_vars, NEW p \in Pipes,
                    p[2] \notin bad', up'[p] = "done", Awaited(p)'
             PROVE  \E k \in 1..Len(wire'[p[1]]) : Closing(p, k)'
  BY DEF StaleInv
<1> USE EndsFacts
<1>1. TypeInv /\ TypeInv' /\ ~dead'
  <2>1. TypeInv /\ TypeInv' /\ DeadInv'
    BY DEF EndsInv
  <2>2. idOf'[p[2]] \in Ids /\ p[2] # NoConn
    BY <2>1 DEF TypeInv, TaskTypes
  <2>3. QED
    BY <2>1, <2>2, EmptySeq DEF DeadInv, Awaited
<1>2. ASSUME up[p] = "done" PROVE p[2] \in Registered
  <2>1. up[p] # "off" /\ (p = <<"client", p[2]>> \/ p = <<"server", p[2]>>)
    BY <1>2
  <2>2. up[<<"client", p[2]>>] # "off"
    BY <2>1 DEF EndsInv, StatusInv
  <2>3. QED
    BY <2>2 DEF Registered
<1> DEFINE Goal == \E k \in 1..Len(wire'[p[1]]) : Closing(p, k)'
<1> HIDE DEF Goal
(* The wire of p is as it was, and so is what p awaits.                    *)
<1>3. ASSUME wire' = wire, bad' = bad, up[p] = "done", idOf'[p[2]] = idOf[p[2]],
             entry'[Other(p[1])][idOf[p[2]]] = p[2] => entry[Other(p[1])][idOf[p[2]]] = p[2]
      PROVE  Goal
  <2>1. Awaited(p)
    BY <1>3 DEF Awaited, Opening
  <2>2. QED
    BY <1>3, <2>1 DEF StaleInv, Closing, Goal
<1>4. ASSUME NEW c \in Conns, ClientRegister(c) PROVE Goal
  <2>1. c \notin Registered /\ c \in Conns \ Registered
    BY <1>4 DEF ClientRegister, Registered
  <2>2. /\ up[p] = "done" /\ wire' = wire /\ bad' = bad
        /\ idOf' = [idOf EXCEPT ![c] = AllocId]
        /\ entry' = [entry EXCEPT !["client"][AllocId] = c]
    BY <1>1, <1>4 DEF ClientRegister, TypeInv, TaskTypes
  <2>3. p[2] # c
    BY <1>2, <2>1, <2>2
  <2>4. idOf'[p[2]] = idOf[p[2]] /\ idOf[p[2]] # AllocId
    BY <1>1, <1>2, <2>1, <2>2, <2>3, FreshId DEF TypeInv, TaskTypes
  <2>5. entry'[Other(p[1])][idOf[p[2]]] = entry[Other(p[1])][idOf[p[2]]]
    BY <1>1, <2>2, <2>4 DEF TypeInv, TaskTypes
  <2>6. QED
    BY <1>3, <2>2, <2>4, <2>5
(* Frame f goes out at end e: not an OPEN of p, and a CLOSE if it ends p.  *)
<1>5. ASSUME NEW e \in Ends, NEW f \in Frames, Send(e, f), bad' = bad, idOf' = idOf,
             \A x \in Ends : \A i \in Ids : entry'[x][i] # NoConn => entry'[x][i] = entry[x][i],
             f.type = "OPEN" => f.load[1] # p,
             \/ up[p] = "done"
             \/ e = p[1] /\ f.type = "CLOSE" /\ f.load[1] = p
      PROVE  Goal
  <2>1. CASE up[p] = "done"
    <3>1. PICK g : Moves(p[1], 0, g) /\ (g.type = "OPEN" => g.load[1] # p)
      <4>1. CASE p[1] = e
        BY <1>1, <1>5, <4>1, SendMoves
      <4>2. CASE p[1] = Other(e)
        BY <1>1, <1>5, <4>2, SendMoves, ShiftsMove
      <4>3. QED
        BY <4>1, <4>2
    <3>2. idOf[p[2]] \in Ids
      BY <1>1 DEF TypeInv, TaskTypes
    <3>3. entry'[Other(p[1])][idOf[p[2]]] = p[2] => Awaited(p)
      BY <1>5, <3>2 DEF Awaited
    <3>4. QED
      BY <1>5, <2>1, <3>1, <3>3, StaleKept DEF Goal
  <2>2. CASE e = p[1] /\ f.type = "CLOSE" /\ f.load[1] = p
    <3>1. /\ Len(wire'[e]) \in 1..Len(wire'[e]) /\ wire'[e][Len(wire'[e])] = f
      BY <1>1, <1>5, SendFacts, SMTT(30) DEF TypeInv, QueueTypes
    <3>2. QED
      BY <2>2, <3>1 DEF Closing, Goal
  <2>3. QED
    BY <1>5, <2>1, <2>2
<1>6. ASSUME NEW c \in Conns, ClientOpen(c) PROVE Goal
  <2> DEFINE f == Frame("OPEN", c, <<"client", c>>, 0)
  <2>1. /\ Send("client", f) /\ up' = [up EXCEPT ![<<"client", c>>] = "read"]
        /\ UNCHANGED <<idOf, entry, bad>>
    BY <1>1, <1>6 DEF ClientOpen
  <2>2. f \in Frames /\ f.load[1] = <<"client", c>>
    BY <1>1, FrameType
  <2>3. up[p] = "done" /\ p # <<"client", c>>
    BY <1>1, <2>1 DEF TypeInv, TaskTypes
  <2> HIDE DEF f
  <2>4. QED
    BY <1>5, <2>1, <2>2, <2>3
<1>7. ASSUME NEW c \in Conns, DialOk(c) PROVE Goal
  <2>1. up[p] = "done" /\ UNCHANGED <<wire, bad, idOf, entry>>
    BY <1>1, <1>7 DEF DialOk, TypeInv, TaskTypes
  <2>2. QED
    BY <1>3, <2>1
<1>8. ASSUME NEW c \in Conns, DialFails(c) PROVE Goal
  <2> DEFINE f == Frame("CLOSE", c, <<"server", c>>, 0)
  <2>1. /\ Send("server", f) /\ up' = [up EXCEPT ![<<"server", c>>] = "done"]
        /\ UNCHANGED <<idOf, bad>> /\ entry' = [entry EXCEPT !["server"][idOf[c]] = NoConn]
    BY <1>1, <1>8 DEF DialFails, BestEffort
  <2>2. f \in Frames /\ f.load[1] = <<"server", c>> /\ f.type = "CLOSE"
    BY <1>1, FrameType
  <2>3. up[p] = "done" \/ p = <<"server", c>>
    BY <1>1, <2>1 DEF TypeInv, TaskTypes
  <2>4. \A x \in Ends : \A i \in Ids : entry'[x][i] # NoConn => entry'[x][i] = entry[x][i]
    BY <1>1, <2>1 DEF TypeInv, TaskTypes
  <2> HIDE DEF f
  <2>5. QED
    BY <1>5, <2>1, <2>2, <2>3, <2>4
<1>9. ASSUME NEW q \in Pipes, UplinkData(q) PROVE Goal
  <2> DEFINE f == Frame("DATA", q[2], q, sent[q] + 1)
  <2>1. Send(q[1], f) /\ UNCHANGED <<up, idOf, bad, entry>>
    BY <1>9 DEF UplinkData
  <2>2. f \in Frames /\ f.type = "DATA"
    <3>1. sent[q] + 1 \in Nat
      BY <1>1 DEF TypeInv, TaskTypes
    <3>2. QED
      BY <1>1, <3>1, FrameType
  <2> HIDE DEF f
  <2>3. QED
    BY <1>5, <2>1, <2>2
<1>10. ASSUME NEW q \in Pipes, UplinkEnd(q) PROVE Goal
  <2> DEFINE f == Frame("CLOSE", q[2], q, 0)
  <2>1. Send(q[1], f) /\ up' = [up EXCEPT ![q] = "done"] /\ UNCHANGED <<idOf, bad, entry>>
    BY <1>1, <1>10 DEF UplinkEnd, BestEffort
  <2>2. f \in Frames /\ f.type = "CLOSE" /\ f.load[1] = q
    BY <1>1, FrameType
  <2>3. up[p] = "done" \/ p = q
    BY <1>1, <2>1 DEF TypeInv, TaskTypes
  <2> HIDE DEF f
  <2>4. QED
    BY <1>5, <2>1, <2>2, <2>3
<1>11. ASSUME NEW q \in Pipes, Downlink(q) PROVE Goal
  <2>1. UNCHANGED <<wire, bad, idOf, entry, up>>
    BY <1>11 DEF Downlink, DownlinkWrite, DownlinkFails, DownlinkEnd
  <2>2. QED
    BY <1>3, <2>1
(* A frame is taken that is not the CLOSE of p.                            *)
<1>12. ASSUME NEW e \in Ends, wire[Other(e)] # <<>>, wire' = Taken(e), idOf' = idOf,
              up[p] = "done", bad \subseteq bad',
              entry'[Other(p[1])][idOf[p[2]]] = p[2] => Awaited(p),
              ~(p[1] = Other(e) /\ Arriving(e).type = "CLOSE" /\ Arriving(e).load[1] = p)
       PROVE  Goal
  <2>1. Shifts(Other(e), 1) /\ Shifts(e, 0) /\ Arriving(e) = wire[Other(e)][1]
    BY <1>1, <1>12, TakenMoves
  <2>2. PICK s \in {0, 1} : Moves(p[1], s, [type |-> "DATA"]) /\ (s = 0 \/ p[1] = Other(e))
    <3>1. CASE p[1] = e
      BY <2>1, <3>1, ShiftsMove
    <3>2. CASE p[1] = Other(e)
      BY <2>1, <3>2, ShiftsMove
    <3>3. QED
      BY <3>1, <3>2
  <2>3. s = 0 \/ ~Closing(p, 1)
    BY <1>12, <2>1, <2>2 DEF Closing
  <2>4. p[2] \notin bad /\ idOf'[p[2]] = idOf[p[2]]
    BY <1>12
  <2> DEFINE f == [type |-> "DATA"]
  <2>5. f.type # "OPEN"
    OBVIOUS
  <2> HIDE DEF f
  <2>6. QED
    BY <1>12, <2>2, <2>3, <2>4, <2>5, StaleKept DEF Goal, f
<1>13. ASSUME NEW e \in Ends, ReaderOpen(e) PROVE Goal
  <2> DEFINE c == Conn(Arriving(e))
  <2>1. wire[Other(e)] # <<>> /\ Arriving(e).type = "OPEN" /\ wire' = Taken(e)
        /\ UNCHANGED <<idOf, bad>>
    BY <1>13 DEF ReaderOpen, Incoming, Arriving
  <2>2. /\ e = "server" /\ c \in Conns /\ c \in Registered /\ Arriving(e).id = idOf[c]
        /\ Arriving(e) = wire["client"][1] /\ 1 \in 1..Len(wire["client"])
        /\ Arriving(e).load[1] = <<"client", c>>
    BY <2>1, ArrivingFacts
  <2>3. /\ entry' = [entry EXCEPT !["server"][idOf[c]] = c]
        /\ up' = [up EXCEPT ![<<"server", c>>] = "dial"]
    BY <1>13, <2>2 DEF ReaderOpen, Conn
  <2>4. up[p] = "done" /\ p # <<"server", c>>
    BY <1>1, <2>2, <2>3 DEF TypeInv, TaskTypes
  <2>5. ASSUME entry'[Other(p[1])][idOf[p[2]]] = p[2] PROVE Awaited(p)
    <3>1. CASE p = <<"client", c>>
      BY <2>1, <2>2, <3>1 DEF Awaited, Opening
    <3>2. CASE p # <<"client", c>>
      <4>1. p[2] # c
        BY <2>4, <3>2
      <4>2. idOf[p[2]] # idOf[c]
        BY <1>2, <2>2, <2>4, <4>1 DEF EndsInv, IdInv
      <4>3. entry'[Other(p[1])][idOf[p[2]]] = entry[Other(p[1])][idOf[p[2]]]
        BY <1>1, <2>3, <4>2 DEF TypeInv, TaskTypes
      <4>4. QED
        BY <2>5, <4>3 DEF Awaited
    <3>3. QED
      BY <3>1, <3>2
  <2> HIDE DEF c
  <2>6. QED
    BY <1>12, <2>1, <2>4, <2>5
<1>14. ASSUME NEW e \in Ends, ReaderData(e) PROVE Goal
  <2>1. wire[Other(e)] # <<>> /\ Arriving(e).type = "DATA" /\ wire' = Taken(e)
        /\ UNCHANGED <<idOf, bad, up, entry>>
    BY <1>14 DEF ReaderData, Incoming, Arriving
  <2>2. QED
    BY <1>12, <2>1 DEF Awaited
<1>15. ASSUME NEW e \in Ends, ReaderStalled(e) PROVE Goal
  <2>1. /\ UNCHANGED <<wire, idOf, bad, up>>
        /\ entry' = [entry EXCEPT ![e][Arriving(e).id] = NoConn]
    BY <1>15 DEF ReaderStalled
  <2>2. entry'[Other(p[1])][idOf[p[2]]] = p[2] => entry[Other(p[1])][idOf[p[2]]] = p[2]
    BY <1>1, <2>1 DEF TypeInv, TaskTypes
  <2>3. QED
    BY <1>3, <2>1, <2>2
<1>16. ASSUME NEW e \in Ends, ReaderRefuses(e) PROVE Goal
  <2> DEFINE c == Conn(Arriving(e))
             f == Frame("CLOSE", c, <<e, c>>, 0)
  <2>1. wire[Other(e)] # <<>> /\ Arriving(e).type = "DATA" /\ UNCHANGED <<idOf, bad, up, entry>>
    BY <1>16 DEF ReaderRefuses, Incoming, Arriving
  <2>2. Moves(e, 0, f) /\ Shifts(Other(e), 1)
    BY <1>16, RefusalMoves
  <2>3. f.type = "CLOSE"
    BY DEF Frame
  <2>4. Arriving(e) = wire[Other(e)][1]
    BY <2>1, ArrivingFacts
  <2> HIDE DEF f
  <2>5. entry'[Other(p[1])][idOf[p[2]]] = p[2] => Awaited(p)
    BY <2>1 DEF Awaited
  <2>6. CASE p[1] = e
    BY <2>1, <2>2, <2>3, <2>5, <2>6, StaleKept DEF Goal
  <2>7. CASE p[1] = Other(e)
    <3>1. Moves(p[1], 1, f) /\ ~Closing(p, 1)
      BY <2>1, <2>2, <2>4, <2>7, ShiftsMove DEF Closing
    <3>2. QED
      BY <2>1, <2>3, <2>5, <3>1, StaleKept DEF Goal
  <2>8. QED
    BY <2>6, <2>7
<1>17. ASSUME NEW e \in Ends, ReaderClose(e) PROVE Goal
  <2> DEFINE c == Conn(Arriving(e))
  <2>1. /\ wire[Other(e)] # <<>> /\ Arriving(e).type = "CLOSE" /\ wire' = Taken(e)
        /\ UNCHANGED <<idOf, bad, up>>
        /\ entry' = [entry EXCEPT ![e][Arriving(e).id] = NoConn]
    BY <1>17 DEF ReaderClose, Incoming, Arriving
  <2>2. /\ c \in Conns /\ Arriving(e).id = idOf[c] /\ Arriving(e) = wire[Other(e)][1]
        /\ 1 \in 1..Len(wire[Other(e)]) /\ Arriving(e).load[1] = <<Other(e), c>>
    BY <2>1, ArrivingFacts
  <2>3. entry'[Other(p[1])][idOf[p[2]]] = p[2] => Awaited(p)
    BY <1>1, <2>1 DEF TypeInv, TaskTypes, Awaited
  <2>4. CASE p # <<Other(e), c>>
    BY <1>12, <2>1, <2>2, <2>3, <2>4
  <2>5. CASE p = <<Other(e), c>>
    <3>1. entry'[Other(p[1])][idOf'[p[2]]] = NoConn
      BY <1>1, <2>1, <2>2, <2>5 DEF TypeInv, TaskTypes
    <3>2. PICK k \in 1..Len(wire'[p[1]]) :
            wire'[p[1]][k].type = "OPEN" /\ wire'[p[1]][k].load[1] = p
      BY <3>1 DEF Awaited, Opening
    <3>3. PICK j \in 1..Len(wire[p[1]]) : j = k + 1 /\ wire[p[1]][j] = wire'[p[1]][k]
      BY <1>1, <2>1, <2>5, TakenMoves DEF Shifts
    <3>4. p[1] = "client"
      <4>1. p[1] \in Ends /\ wire[p[1]][j].type = "OPEN"
        BY <3>2, <3>3
      <4>2. QED
        BY <4>1, OnlyClientOpens
    <3>5. Conn(wire["client"][1]) # Conn(wire["client"][j])
      <4>1. wire["client"][j].type = "OPEN" /\ j \in 1..Len(wire["client"]) /\ 1 \in 1..(j - 1)
        BY <3>2, <3>3, <3>4
      <4>2. QED
        BY <4>1 DEF EndsInv, OpenInv
    <3>6. Conn(wire["client"][j]) = c /\ Conn(wire["client"][1]) = c
      BY <2>2, <2>5, <3>2, <3>3, <3>4, SMTT(30) DEF Conn
    <3>7. QED
      BY <3>5, <3>6
  <2>6. QED
    BY <2>4, <2>5
<1>18. ASSUME NEW e \in Ends, BadRecord(e) PROVE Goal
  <2>1. /\ wire[Other(e)] # <<>> /\ wire' = Taken(e) /\ bad' = bad \cup {Conn(Arriving(e))}
        /\ UNCHANGED <<idOf, up, entry>>
    BY <1>18 DEF BadRecord, Conn
  <2>2. Arriving(e).load[1] = <<Other(e), Conn(Arriving(e))>>
    BY <2>1, ArrivingFacts
  <2>3. Arriving(e).load[1] # p
    BY <2>1, <2>2
  <2>4. QED
    BY <1>12, <2>1, <2>3 DEF Awaited
<1>19. ASSUME Dies PROVE Goal
  BY <1>1, <1>19 DEF Dies
<1>20. ASSUME UNCHANGED vars PROVE Goal
  BY <1>3, <1>20 DEF vars
<1>21. Goal
  BY <1>4, <1>6, <1>7, <1>8, <1>9, <1>10, <1>11, <1>13, <1>14, <1>15, <1>16, <1>17, <1>18,
     <1>19, <1>20 DEF Next, Opener, Reader
<1>22. QED
  BY <1>21 DEF Goal

(* Once the far uplink has ended and its frames are dispatched, no entry   *)
(* of the stream is left, unless the CLOSE was lost to a bad record.       *)
THEOREM MuxKeepsNoStaleEntry == Spec => []NoStaleEntry
<1>1. Init => StaleInv
  BY DEF Init, StaleInv
<1>2. Spec => []StaleInv
  BY <1>1, EndsInvariant, StaleNext, PTL DEF Spec
<1>3. EndsInv /\ StaleInv => NoStaleEntry
  <2> SUFFICES ASSUME EndsInv, StaleInv, NEW e \in Ends, NEW i \in Ids, NEW c,
                      c = entry[e][i], c \in Conns \ bad, up[<<Other(e), c>>] = "done"
               PROVE  \E k \in 1..Len(wire[Other(e)]) : wire[Other(e)][k].load[1][2] = c
    BY DEF NoStaleEntry
  <2>1. idOf[c] = i
    BY EndsFacts DEF EndsInv, EntryInv
  <2> DEFINE p == <<Other(e), c>>
  <2>2. p \in Pipes /\ p[1] = Other(e) /\ p[2] = c /\ Other(p[1]) = e
    BY EndsFacts
  <2>3. Awaited(p)
    BY <2>1, <2>2 DEF Awaited
  <2>4. PICK k \in 1..Len(wire[p[1]]) : Closing(p, k)
    BY <2>2, <2>3 DEF StaleInv
  <2>5. QED
    BY <2>2, <2>4 DEF Closing
<1>4. QED
  BY <1>2, <1>3, EndsInvariant, PTL

-----------------------------------------------------------------------------
(* The second layer.  Steps that carry no chunk of p keep its numbers.     *)
LEMMA ChunksKept ==
  ASSUME NEW p \in Pipes, NEW s \in {0, 1}, NEW f, Moves(p[1], s, f),
         f.type = "DATA" => f.load[1] # p,
         chan'[p] = chan[p], got'[p] = got[p], sent'[p] = sent[p]
  PROVE  /\ ChanOrder(p) => ChanOrder(p)'
         /\ WireOrder(p) => WireOrder(p)'
         /\ Whole(p) /\ (s = 0 \/ ~Carries(p, 1)) => Whole(p)'
<1>1. ASSUME NEW k \in 1..Len(wire'[p[1]]), Carries(p, k)'
      PROVE  /\ k + s \in 1..Len(wire[p[1]]) /\ Carries(p, k + s)
             /\ Number(p, k)' = Number(p, k + s)
  BY <1>1 DEF Moves, Carries, Number
<1>2. ASSUME NEW k \in 1..Len(wire[p[1]]), Carries(p, k), s = 0 \/ ~Carries(p, 1)
      PROVE  /\ k - s \in 1..Len(wire'[p[1]]) /\ Carries(p, k - s)'
             /\ Number(p, k - s)' = Number(p, k)
  <2>1. k > s
    BY <1>2
  <2>2. k - s \in 1..Len(wire'[p[1]]) /\ wire'[p[1]][k - s] = wire[p[1]][k]
    BY <2>1 DEF Moves
  <2>3. QED
    BY <1>2, <2>2 DEF Carries, Number
<1>3. ASSUME ChanOrder(p) PROVE ChanOrder(p)'
  BY <1>3 DEF ChanOrder
<1>4. ASSUME WireOrder(p) PROVE WireOrder(p)'
  <2>1. \A k \in 1..Len(wire'[p[1]]) : Carries(p, k)' => Number(p, k)' \in 1..sent'[p]
    BY <1>1, <1>4 DEF WireOrder
  <2>2. \A k \in 1..Len(wire'[p[1]]) : \A i \in 1..Len(chan'[p]) :
          Carries(p, k)' => chan'[p][i][2] < Number(p, k)'
    BY <1>1, <1>4 DEF WireOrder
  <2>3. \A k \in 1..Len(wire'[p[1]]) : \A g \in 1..Len(got'[p]) :
          Carries(p, k)' => got'[p][g][2] < Number(p, k)'
    BY <1>1, <1>4 DEF WireOrder
  <2>4. ASSUME NEW k \in 1..Len(wire'[p[1]]), NEW l \in 1..Len(wire'[p[1]]),
               Carries(p, k)', Carries(p, l)', k < l
        PROVE  Number(p, k)' < Number(p, l)'
    <3>1. k + s < l + s
      BY <2>4
    <3>2. QED
      BY <1>1, <1>4, <2>4, <3>1 DEF WireOrder
  <2>5. QED
    BY <2>1, <2>2, <2>3, <2>4 DEF WireOrder
<1>5. ASSUME Whole(p), s = 0 \/ ~Carries(p, 1) PROVE Whole(p)'
  <2>1. \A k \in 1..Len(wire'[p[1]]) : Carries(p, k)' => Number(p, k)' > Arrived(p)
    BY <1>1, <1>5 DEF Whole
  <2>2. ASSUME NEW n \in (Arrived(p) + 1)..sent[p]
        PROVE  \E k \in 1..Len(wire'[p[1]]) : Carries(p, k)' /\ Number(p, k)' = n
    <3>1. PICK k \in 1..Len(wire[p[1]]) : Carries(p, k) /\ Number(p, k) = n
      BY <1>5 DEF Whole
    <3>2. QED
      BY <1>2, <1>5, <3>1
  <2>3. Arrived(p)' = Arrived(p)
    BY DEF Arrived
  <2>4. QED
    BY <1>5, <2>1, <2>2, <2>3 DEF Whole
<1>6. QED
  BY <1>3, <1>4, <1>5

(* A sender that has not finished may send; then a CLOSE finishes it.      *)
LEMMA CloseLastKept ==
  ASSUME NEW p \in Pipes, NEW s \in {0, 1}, NEW f, Moves(p[1], s, f), CloseLast(p),
         Len(wire[p[1]]) \in Nat,
         up[p] = "done" => up'[p] = "done",
         f.load[1] = p => up[p] # "done" /\ (f.type = "CLOSE" => up'[p] = "done")
  PROVE  CloseLast(p)'
<1>1. ASSUME NEW k \in 1..Len(wire'[p[1]]), Closing(p, k)'
      PROVE  \/ k + s \in 1..Len(wire[p[1]]) /\ Closing(p, k + s)
             \/ k + s = Len(wire[p[1]]) + 1 /\ f.type = "CLOSE" /\ f.load[1] = p
  BY <1>1 DEF Moves, Closing
<1>2. ASSUME NEW k \in 1..Len(wire'[p[1]]), Closing(p, k)' PROVE up'[p] = "done"
  BY <1>1, <1>2 DEF CloseLast
<1>3. ASSUME NEW k \in 1..Len(wire'[p[1]]), NEW l \in 1..Len(wire'[p[1]]),
             Closing(p, k)', k < l
      PROVE  wire'[p[1]][l].load[1] # p
  <2>1. \/ l + s \in 1..Len(wire[p[1]]) /\ wire'[p[1]][l] = wire[p[1]][l + s]
        \/ l + s = Len(wire[p[1]]) + 1 /\ wire'[p[1]][l] = f
    BY DEF Moves
  <2>2. k + s < l + s
    BY <1>3
  <2>3. k + s \in 1..Len(wire[p[1]]) /\ Closing(p, k + s)
    BY <1>1, <1>3, <2>1, <2>2
  <2>4. QED
    BY <2>1, <2>2, <2>3 DEF CloseLast
<1>4. QED
  BY <1>2, <1>3 DEF CloseLast

(* A phase lasts while its OPEN and its entry do.                          *)
LEMMA PhaseKept ==
  ASSUME NEW p \in Pipes, NEW s \in {0, 1}, NEW f, Moves(p[1], s, f), Phase(p),
         f.load[1] = p => up[p] \notin {"off", "opening", "done"},
         up[p] = "done" => up'[p] = "done",
         s = 0 \/ ~Opening(p, 1),
         down[p] = "off" => /\ down'[p] = "off"
                            /\ up[p] \in {"off", "opening"} => up'[p] \in {"off", "opening"},
         /\ down[p] \in {"wait", "recv"} /\ entry[Other(p[1])][idOf[p[2]]] = p[2]
         => /\ down'[p] \in {"wait", "recv"} /\ entry'[Other(p[1])][idOf'[p[2]]] = p[2]
  PROVE  Phase(p)'
<1>1. ASSUME Silent(p), f.load[1] # p PROVE Silent(p)'
  BY <1>1 DEF Silent, Moves
<1>2. ASSUME NEW k \in 1..Len(wire[p[1]]), Opening(p, k)
      PROVE  \E j \in 1..Len(wire'[p[1]]) : Opening(p, j)'
  <2>1. k > s
    BY <1>2
  <2>2. k - s \in 1..Len(wire'[p[1]]) /\ wire'[p[1]][k - s] = wire[p[1]][k]
    BY <2>1 DEF Moves
  <2>3. QED
    BY <1>2, <2>2 DEF Opening
<1>3. QED
  BY <1>1, <1>2 DEF Phase

LEMMA QueueFacts ==
  ASSUME TypeInv, NEW p \in Pipes
  PROVE  /\ chan[p] \in Seq(Pipes \X Nat) /\ Len(chan[p]) \in Nat
         /\ got[p] \in Seq(Pipes \X Nat) /\ Len(got[p]) \in Nat
         /\ \A i \in 1..Len(chan[p]) : chan[p][i][2] \in Nat
         /\ \A g \in 1..Len(got[p]) : got[p][g][2] \in Nat
         /\ sent[p] \in Nat /\ Len(wire[p[1]]) \in Nat
         /\ \A k \in 1..Len(wire[p[1]]) : Number(p, k) \in Nat
<1>1. p[1] \in Ends
  BY EndsFacts
<1>2. chan[p] \in Seq(Pipes \X Nat) /\ got[p] \in Seq(Pipes \X Nat)
      /\ sent[p] \in Nat /\ Len(wire[p[1]]) \in Nat
  BY <1>1 DEF TypeInv, TaskTypes, QueueTypes
<1>3. \A k \in 1..Len(wire[p[1]]) : Number(p, k) \in Nat
  BY <1>1, WireFacts DEF Number
<1>4. QED
  BY <1>2, <1>3

LEMMA ArrivedFacts ==
  ASSUME NEW p, NEW g \in Nat, NEW m \in Nat, Len(got[p]) = g, Len(chan[p]) = m
  PROVE  Arrived(p) = g + m /\ Arrived(p) \in Nat
<1>1. Arrived(p) = g + m
  BY DEF Arrived
<1>2. QED
  BY <1>1

LEMMA ArrivedNext ==
  ASSUME NEW p, NEW g \in Nat, NEW m \in Nat, Len(got'[p]) = g, Len(chan'[p]) = m
  PROVE  Arrived(p)' = g + m
  BY DEF Arrived

(* The uplink numbers a new chunk above all others.                        *)
LEMMA UplinkDataPipe ==
  ASSUME EndsInv, NEW p \in Pipes, UplinkData(p), ChanOrder(p), WireOrder(p)
  PROVE  ChanOrder(p)' /\ WireOrder(p)' /\ (Whole(p) => Whole(p)')
<1> DEFINE f == Frame("DATA", p[2], p, sent[p] + 1)
<1>1. TypeInv
  BY DEF EndsInv
<1>n. PICK n : n = Len(wire[p[1]])
  OBVIOUS
<1>a. PICK a : a = Arrived(p)
  OBVIOUS
<1>2. /\ sent[p] \in Nat /\ n \in Nat /\ Len(chan[p]) \in Nat /\ Len(got[p]) \in Nat
      /\ \A i \in 1..Len(chan[p]) : chan[p][i][2] \in Nat
      /\ \A g \in 1..Len(got[p]) : got[p][g][2] \in Nat
      /\ \A k \in 1..n : Number(p, k) \in Nat
  BY <1>1, <1>n, QueueFacts
<1>3. f \in Frames /\ f.type = "DATA" /\ f.load[1] = p /\ f.load[2] = sent[p] + 1
  <2>1. sent[p] + 1 \in Nat /\ p[2] \in Conns
    BY <1>2, EndsFacts
  <2>2. QED
    BY <1>1, <2>1, FrameType
<1>4. Send(p[1], f) /\ chan' = chan /\ got' = got /\ sent'[p] = sent[p] + 1 /\ p[1] \in Ends
  BY <1>1, EndsFacts DEF UplinkData, TypeInv, TaskTypes
<1> HIDE DEF f
<1>5. /\ Len(wire'[p[1]]) = n + 1 /\ wire'[p[1]][n + 1] = f
      /\ \A k \in 1..n : wire'[p[1]][k] = wire[p[1]][k]
  BY <1>1, <1>n, <1>3, <1>4, SendFacts
<1>6. /\ \A k \in 1..n : (Carries(p, k)' <=> Carries(p, k)) /\ Number(p, k)' = Number(p, k)
      /\ Carries(p, n + 1)' /\ Number(p, n + 1)' = sent[p] + 1
  BY <1>3, <1>5 DEF Carries, Number
<1>7. ChanOrder(p)'
  BY <1>2, <1>4 DEF ChanOrder
<1>8. \A k \in 1..Len(wire'[p[1]]) : k \in 1..n \/ k = n + 1
  BY <1>2, <1>5
<1>9. \A k \in 1..n : Carries(p, k) => Number(p, k) \in 1..sent[p]
  BY <1>n DEF WireOrder
<1>10. WireOrder(p)'
  <2>1. \A k \in 1..Len(wire'[p[1]]) : Carries(p, k)' => Number(p, k)' \in 1..sent'[p]
    BY <1>2, <1>4, <1>6, <1>8, <1>9
  <2>2. ASSUME NEW k \in 1..Len(wire'[p[1]]), NEW i \in 1..Len(chan'[p]), Carries(p, k)'
        PROVE  chan'[p][i][2] < Number(p, k)'
    <3>1. i \in 1..Len(chan[p]) /\ chan'[p][i] = chan[p][i]
      BY <1>4
    <3>2. CASE k \in 1..n
      BY <1>6, <1>n, <2>2, <3>1, <3>2 DEF WireOrder
    <3>3. CASE k = n + 1
      <4>1. chan[p][i][2] \in 1..sent[p]
        BY <3>1 DEF ChanOrder
      <4>2. QED
        BY <1>2, <1>6, <3>1, <3>3, <4>1
    <3>4. QED
      BY <1>8, <3>2, <3>3
  <2>3. ASSUME NEW k \in 1..Len(wire'[p[1]]), NEW g \in 1..Len(got'[p]), Carries(p, k)'
        PROVE  got'[p][g][2] < Number(p, k)'
    <3>1. g \in 1..Len(got[p]) /\ got'[p][g] = got[p][g]
      BY <1>4
    <3>2. CASE k \in 1..n
      BY <1>6, <1>n, <2>3, <3>1, <3>2 DEF WireOrder
    <3>3. CASE k = n + 1
      <4>1. got[p][g][2] <= sent[p] /\ got[p][g][2] \in Nat
        BY <1>2, <3>1 DEF ChanOrder
      <4>2. QED
        BY <1>2, <1>6, <3>1, <3>3, <4>1
    <3>4. QED
      BY <1>8, <3>2, <3>3
  <2>4. ASSUME NEW k \in 1..Len(wire'[p[1]]), NEW l \in 1..Len(wire'[p[1]]),
               Carries(p, k)', Carries(p, l)', k < l
        PROVE  Number(p, k)' < Number(p, l)'
    <3>1. k \in 1..n
      BY <1>2, <1>5, <2>4
    <3>2. CASE l \in 1..n
      BY <1>6, <2>4, <3>1, <3>2, <1>n DEF WireOrder
    <3>3. CASE l = n + 1
      BY <1>2, <1>6, <1>9, <2>4, <3>1, <3>3
    <3>4. QED
      BY <1>8, <3>2, <3>3
  <2>5. QED
    BY <2>1, <2>2, <2>3, <2>4 DEF WireOrder
<1>11. ASSUME Whole(p) PROVE Whole(p)'
  <2>0. Arrived(p)' = a /\ a \in Nat
    <3>1. Arrived(p) \in Nat
      BY <1>2, ArrivedFacts
    <3>2. Arrived(p)' = Arrived(p)
      BY <1>4 DEF Arrived
    <3>3. QED
      BY <1>a, <3>1, <3>2
  <2>1. a <= sent[p]
    BY <1>a, <1>11 DEF Whole
  <2>2. \A k \in 1..Len(wire'[p[1]]) : Carries(p, k)' => Number(p, k)' > a
    BY <1>2, <1>6, <1>8, <1>11, <2>0, <2>1, <1>n, <1>a DEF Whole
  <2>3. ASSUME NEW m \in (a + 1)..(sent[p] + 1)
        PROVE  \E k \in 1..Len(wire'[p[1]]) : Carries(p, k)' /\ Number(p, k)' = m
    <3>1. CASE m = sent[p] + 1
      <4>1. n + 1 \in 1..Len(wire'[p[1]])
        BY <1>2, <1>5
      <4>2. QED
        BY <1>6, <3>1, <4>1
    <3>2. CASE m # sent[p] + 1
      <4>1. m \in (a + 1)..sent[p]
        BY <1>2, <2>0, <2>1, <3>2
      <4>2. PICK k \in 1..n : Carries(p, k) /\ Number(p, k) = m
        BY <1>11, <4>1, <1>n, <1>a DEF Whole
      <4>3. k \in 1..Len(wire'[p[1]])
        BY <1>2, <1>5
      <4>4. QED
        BY <1>6, <4>2, <4>3
    <3>3. QED
      BY <3>1, <3>2
  <2>4. QED
    BY <1>2, <1>4, <1>11, <2>0, <2>1, <2>2, <2>3 DEF Whole
<1>12. QED
  BY <1>7, <1>10, <1>11

(* The downlink passes on the first chunk that waits.                      *)
LEMMA DownlinkWritePipe ==
  ASSUME EndsInv, NEW p \in Pipes, DownlinkWrite(p), ChanOrder(p), WireOrder(p)
  PROVE  ChanOrder(p)' /\ WireOrder(p)' /\ (Whole(p) => Whole(p)')
<1>1. TypeInv
  BY DEF EndsInv
<1>2. /\ sent[p] \in Nat /\ Len(chan[p]) \in Nat /\ Len(got[p]) \in Nat
      /\ \A i \in 1..Len(chan[p]) : chan[p][i][2] \in Nat
      /\ \A g \in 1..Len(got[p]) : got[p][g][2] \in Nat
      /\ chan[p] \in Seq(Pipes \X Nat) /\ got[p] \in Seq(Pipes \X Nat)
  BY <1>1, QueueFacts
<1>3. /\ got'[p] = Append(got[p], Head(chan[p])) /\ chan'[p] = Tail(chan[p]) /\ chan[p] # <<>>
      /\ UNCHANGED <<wire, sent>>
  BY <1>1 DEF DownlinkWrite, TypeInv, QueueTypes
<1>4. /\ Len(chan'[p]) = Len(chan[p]) - 1 /\ Len(chan[p]) # 0 /\ Head(chan[p]) = chan[p][1]
      /\ \A i \in 1..Len(chan'[p]) : chan'[p][i] = chan[p][i + 1] /\ i + 1 \in 1..Len(chan[p])
  BY <1>2, <1>3, HeadTailProperties, EmptySeq
<1>5. /\ Len(got'[p]) = Len(got[p]) + 1 /\ got'[p][Len(got[p]) + 1] = chan[p][1]
      /\ \A g \in 1..Len(got[p]) : got'[p][g] = got[p][g]
  <2>1. chan[p][1] \in Pipes \X Nat
    BY <1>2, <1>4
  <2>2. QED
    BY <1>2, <1>3, <1>4, <2>1, AppendProperties
<1>6. 1 \in 1..Len(chan[p]) /\ \A g \in 1..Len(got'[p]) : g \in 1..Len(got[p]) \/ g = Len(got[p]) + 1
  BY <1>2, <1>4, <1>5
<1>h. PICK h \in Nat : h = Len(got[p])
  BY <1>2
<1>m. PICK m \in Nat : m = Len(chan'[p]) /\ Len(chan[p]) = m + 1
  BY <1>2, <1>4
<1>7. ASSUME NEW i \in 1..m
      PROVE  /\ i \in 1..Len(chan[p]) /\ i + 1 \in 1..Len(chan[p]) /\ 1 < i + 1
             /\ chan'[p][i] = chan[p][i + 1] /\ chan[p][1][2] < chan[p][i + 1][2]
  <2>1. /\ i \in 1..Len(chan[p]) /\ i + 1 \in 1..Len(chan[p]) /\ 1 < i + 1
        /\ chan'[p][i] = chan[p][i + 1]
    BY <1>m, <1>4
  <2>2. QED
    BY <1>6, <2>1 DEF ChanOrder
<1>8. ChanOrder(p)'
  <2>1. \A i \in 1..Len(chan'[p]) : chan'[p][i][1] = p /\ chan'[p][i][2] \in 1..sent'[p]
    BY <1>3, <1>4 DEF ChanOrder
  <2>2. ASSUME NEW i \in 1..m, NEW j \in 1..m, i < j PROVE chan'[p][i][2] < chan'[p][j][2]
    <3>1. i + 1 < j + 1
      BY <2>2
    <3>2. QED
      BY <1>7, <3>1 DEF ChanOrder
  <2>3. ASSUME NEW g \in 1..Len(got'[p]), NEW i \in 1..m PROVE got'[p][g][2] < chan'[p][i][2]
    <3>1. CASE g \in 1..Len(got[p])
      BY <1>5, <1>7, <3>1 DEF ChanOrder
    <3>2. CASE g = Len(got[p]) + 1
      BY <1>5, <1>7, <3>2
    <3>3. QED
      BY <1>6, <3>1, <3>2
  <2>4. ASSUME NEW g \in 1..Len(got'[p]) PROVE got'[p][g][2] <= sent'[p]
    <3>1. CASE g \in 1..Len(got[p])
      BY <1>3, <1>5, <3>1 DEF ChanOrder
    <3>2. CASE g = Len(got[p]) + 1
      <4>1. chan[p][1][2] \in 1..sent[p]
        BY <1>6 DEF ChanOrder
      <4>2. QED
        BY <1>2, <1>3, <1>5, <3>2, <4>1
    <3>3. QED
      BY <1>6, <3>1, <3>2
  <2>5. QED
    BY <1>m, <2>1, <2>2, <2>3, <2>4 DEF ChanOrder
<1>9. \A k : (Carries(p, k)' <=> Carries(p, k)) /\ Number(p, k)' = Number(p, k)
  BY <1>3 DEF Carries, Number
<1>10. WireOrder(p)'
  BY <1>3, <1>4, <1>5, <1>6, <1>9, SMTT(30) DEF WireOrder
<1>11. ASSUME Whole(p) PROVE Whole(p)'
  <2>1. Arrived(p)' = Arrived(p)
    <3>1. Len(got'[p]) = h + 1 /\ h + 1 \in Nat /\ m + 1 \in Nat
      BY <1>5, <1>h
    <3>2. Arrived(p)' = (h + 1) + m /\ Arrived(p) = h + (m + 1)
      BY <1>h, <1>m, <3>1, ArrivedNext, ArrivedFacts
    <3>3. QED
      BY <3>2
  <2>2. ASSUME NEW i \in 1..m PROVE chan'[p][i][2] = Len(got'[p]) + i
    <3>1. PICK j : j = i + 1
      OBVIOUS
    <3>2. chan'[p][i] = chan[p][j] /\ j \in 1..Len(chan[p])
      BY <1>7, <3>1
    <3>3. chan[p][j][2] = h + j
      BY <1>h, <1>11, <3>2 DEF Whole
    <3>4. Len(got'[p]) = h + 1
      BY <1>5, <1>h
    <3>5. QED
      BY <3>1, <3>2, <3>3, <3>4
  <2>3. QED
    BY <1>3, <1>m, <1>9, <1>11, <2>1, <2>2 DEF Whole
<1>12. QED
  BY <1>8, <1>10, <1>11

(* The reader queues the first chunk that travels.                         *)
LEMMA ReaderDataPipe ==
  ASSUME EndsInv, NEW p \in Pipes, ChanOrder(p), WireOrder(p),
         Shifts(p[1], 1), 1 \in 1..Len(wire[p[1]]), Carries(p, 1),
         chan'[p] = Append(chan[p], wire[p[1]][1].load), UNCHANGED <<got, sent>>,
         Len(wire'[p[1]]) \in Nat
  PROVE  ChanOrder(p)' /\ WireOrder(p)' /\ (Whole(p) => Whole(p)')
<1> DEFINE f == wire[p[1]][1]
           m == Len(chan[p])
<1>1. TypeInv /\ p[1] \in Ends
  BY EndsFacts DEF EndsInv
<1>2. /\ sent[p] \in Nat /\ m \in Nat /\ Len(got[p]) \in Nat /\ Len(wire[p[1]]) \in Nat
      /\ \A i \in 1..m : chan[p][i][2] \in Nat
      /\ \A g \in 1..Len(got[p]) : got[p][g][2] \in Nat
      /\ chan[p] \in Seq(Pipes \X Nat)
      /\ \A k \in 1..Len(wire[p[1]]) : Number(p, k) \in Nat
  BY <1>1, QueueFacts
<1>3. f.load \in Pipes \X Nat /\ f.load[1] = p /\ f.load[2] = Number(p, 1)
  BY <1>1, WireFacts DEF Carries, Number, Frames
<1>4. /\ Len(chan'[p]) = m + 1 /\ chan'[p][m + 1] = f.load
      /\ \A i \in 1..m : chan'[p][i] = chan[p][i]
  BY <1>2, <1>3, AppendProperties
<1> HIDE DEF f
<1>5. /\ Number(p, 1) \in 1..sent[p]
      /\ \A i \in 1..m : chan[p][i][2] < Number(p, 1)
      /\ \A g \in 1..Len(got[p]) : got[p][g][2] < Number(p, 1)
  BY DEF WireOrder
<1>6. \A i \in 1..Len(chan'[p]) : i \in 1..m \/ i = m + 1
  BY <1>2, <1>4
<1> HIDE DEF m
<1>7. \A k \in 1..Len(wire'[p[1]]) :
        /\ k + 1 \in 1..Len(wire[p[1]]) /\ k + 1 > 1
        /\ Carries(p, k)' <=> Carries(p, k + 1)
        /\ Number(p, k)' = Number(p, k + 1)
  BY SMTT(30) DEF Shifts, Carries, Number
<1>8. \A k \in 1..Len(wire'[p[1]]) : Carries(p, k)' => Number(p, 1) < Number(p, k)'
  BY <1>7 DEF WireOrder
<1>9. ChanOrder(p)'
  <2>1. \A i \in 1..Len(chan'[p]) : chan'[p][i][1] = p /\ chan'[p][i][2] \in 1..sent'[p]
    BY <1>3, <1>4, <1>5, <1>6, SMTT(30) DEF ChanOrder, m
  <2>2. ASSUME NEW i \in 1..Len(chan'[p]), NEW j \in 1..Len(chan'[p]), i < j
        PROVE  chan'[p][i][2] < chan'[p][j][2]
    <3>1. i \in 1..m
      BY <1>2, <1>4, <2>2
    <3>2. CASE j \in 1..m
      BY <1>4, <2>2, <3>1, <3>2 DEF ChanOrder, m
    <3>3. CASE j = m + 1
      BY <1>3, <1>4, <1>5, <3>1, <3>3
    <3>4. QED
      BY <1>6, <3>2, <3>3
  <2>3. ASSUME NEW g \in 1..Len(got'[p]), NEW i \in 1..Len(chan'[p])
        PROVE  got'[p][g][2] < chan'[p][i][2]
    <3>1. got'[p] = got[p] /\ g \in 1..Len(got[p])
      OBVIOUS
    <3>2. CASE i \in 1..m
      BY <1>4, <3>1, <3>2 DEF ChanOrder, m
    <3>3. CASE i = m + 1
      BY <1>3, <1>4, <1>5, <3>1, <3>3
    <3>4. QED
      BY <1>6, <3>2, <3>3
  <2>4. \A g \in 1..Len(got'[p]) : got'[p][g][2] <= sent'[p]
    BY DEF ChanOrder
  <2>5. QED
    BY <2>1, <2>2, <2>3, <2>4 DEF ChanOrder
<1>10. WireOrder(p)'
  <2>1. \A k \in 1..Len(wire'[p[1]]) : Carries(p, k)' => Number(p, k)' \in 1..sent'[p]
    BY <1>7 DEF WireOrder
  <2>2. ASSUME NEW k \in 1..Len(wire'[p[1]]), NEW i \in 1..Len(chan'[p]), Carries(p, k)'
        PROVE  chan'[p][i][2] < Number(p, k)'
    <3>1. CASE i \in 1..m
      BY <1>4, <1>7, <2>2, <3>1 DEF WireOrder, m
    <3>2. CASE i = m + 1
      BY <1>3, <1>4, <1>8, <2>2, <3>2
    <3>3. QED
      BY <1>6, <3>1, <3>2
  <2>3. \A k \in 1..Len(wire'[p[1]]) : \A g \in 1..Len(got'[p]) :
          Carries(p, k)' => got'[p][g][2] < Number(p, k)'
    BY <1>7 DEF WireOrder
  <2>4. \A k, l \in 1..Len(wire'[p[1]]) :
          Carries(p, k)' /\ Carries(p, l)' /\ k < l => Number(p, k)' < Number(p, l)'
    BY <1>7 DEF WireOrder
  <2>5. QED
    BY <2>1, <2>2, <2>3, <2>4 DEF WireOrder
<1>11. ASSUME Whole(p) PROVE Whole(p)'
  <2>h. PICK h \in Nat : h = Len(got[p])
    BY <1>2
  <2>1. Arrived(p) \in Nat /\ Arrived(p)' = Arrived(p) + 1 /\ Arrived(p) <= sent[p]
        /\ Arrived(p) = h + m
    <3>1. Arrived(p) \in Nat /\ Arrived(p) = h + m
      BY <1>2, <2>h, ArrivedFacts DEF m
    <3>2. m + 1 \in Nat /\ got'[p] = got[p]
      BY <1>2
    <3>3. Arrived(p)' = h + (m + 1)
      BY <1>4, <2>h, <3>2, ArrivedNext
    <3>4. Arrived(p) <= sent[p]
      BY <1>11 DEF Whole
    <3>5. QED
      BY <1>2, <3>1, <3>3, <3>4
  <2>2. Number(p, 1) = Arrived(p) + 1
    <3>1. Number(p, 1) > Arrived(p) /\ Arrived(p) + 1 \in (Arrived(p) + 1)..sent[p]
      BY <1>2, <1>5, <1>11, <2>1 DEF Whole
    <3>2. PICK k \in 1..Len(wire[p[1]]) : Carries(p, k) /\ Number(p, k) = Arrived(p) + 1
      BY <1>11, <3>1 DEF Whole
    <3>3. 1 < k => Number(p, 1) < Number(p, k)
      BY <3>2 DEF WireOrder
    <3>4. QED
      BY <1>2, <2>1, <3>1, <3>2, <3>3
  <2>3. ASSUME NEW i \in 1..Len(chan'[p]) PROVE chan'[p][i][2] = Len(got'[p]) + i
    <3>1. got'[p] = got[p]
      OBVIOUS
    <3>2. CASE i \in 1..m
      BY <1>4, <1>11, <3>1, <3>2 DEF Whole, m
    <3>3. CASE i = m + 1
      <4>1. chan'[p][i][2] = (h + m) + 1
        BY <1>3, <1>4, <2>1, <2>2, <3>3
      <4>2. m \in Nat /\ Len(got'[p]) = h
        BY <1>2, <2>h, <3>1
      <4>3. (h + m) + 1 = h + i
        BY <3>3, <4>2
      <4>4. QED
        BY <4>1, <4>2, <4>3
    <3>4. QED
      BY <1>6, <3>2, <3>3
  <2>4. \A k \in 1..Len(wire'[p[1]]) : Carries(p, k)' => Number(p, k)' > Arrived(p)'
    <3>1. \A k \in 1..Len(wire'[p[1]]) : Number(p, k)' \in Nat
      BY <1>2, <1>7
    <3>2. QED
      BY <1>2, <1>8, <2>1, <2>2, <3>1
  <2>5. ASSUME NEW n \in (Arrived(p)' + 1)..sent[p]
        PROVE  \E k \in 1..Len(wire'[p[1]]) : Carries(p, k)' /\ Number(p, k)' = n
    <3>1. n \in (Arrived(p) + 1)..sent[p] /\ n # Arrived(p) + 1
      BY <1>2, <2>1
    <3>2. PICK k \in 1..Len(wire[p[1]]) : Carries(p, k) /\ Number(p, k) = n
      BY <1>11, <3>1 DEF Whole
    <3>3. k > 1
      BY <1>2, <2>2, <3>1, <3>2
    <3>4. k - 1 \in 1..Len(wire'[p[1]]) /\ wire'[p[1]][k - 1] = wire[p[1]][k]
      BY <3>3 DEF Shifts
    <3>5. QED
      BY <3>2, <3>4 DEF Carries, Number
  <2>6. Arrived(p)' <= sent'[p]
    BY <1>2, <1>5, <2>1, <2>2
  <2>7. QED
    BY <2>3, <2>4, <2>5, <2>6 DEF Whole
<1>12. QED
  BY <1>9, <1>10, <1>11

(* A step that carries no chunk of p keeps the pipe, if it keeps its end   *)
(* and its phase.                                                          *)
LEMMA PipeMoves ==
  ASSUME NEW p \in Pipes, PipeOk(p), broken \subseteq broken',
         NEW s \in {0, 1}, NEW f, Moves(p[1], s, f), f.type = "DATA" => f.load[1] # p,
         chan'[p] = chan[p], got'[p] = got[p], sent'[p] = sent[p],
         p[2] \notin broken' =>
           /\ s = 0 \/ ~Carries(p, 1)
           /\ CloseLast(p) /\ Phase(p) => CloseLast(p)' /\ Phase(p)'
  PROVE  PipeOk(p)'
<1>1. ChanOrder(p) /\ WireOrder(p)
  BY DEF PipeOk
<1>2. ChanOrder(p)' /\ WireOrder(p)'
  BY <1>1, ChunksKept
<1>3. ASSUME p[2] \notin broken' PROVE Whole(p)' /\ CloseLast(p)' /\ Phase(p)'
  <2>1. Whole(p) /\ CloseLast(p) /\ Phase(p)
    BY <1>3 DEF PipeOk
  <2>2. QED
    BY <1>3, <2>1, ChunksKept
<1>4. QED
  BY <1>2, <1>3 DEF PipeOk

(* A step that has nothing to do with p, or breaks it.                     *)
LEMMA OthersKept ==
  ASSUME TypeInv, NEW p \in Pipes, PipeOk(p), broken \subseteq broken',
         NEW s \in {0, 1}, NEW f, Moves(p[1], s, f), f.type = "DATA" => f.load[1] # p,
         chan'[p] = chan[p], got'[p] = got[p], sent'[p] = sent[p],
         p[2] \notin broken' =>
           /\ s = 0 \/ wire[p[1]][1].load[1] # p
           /\ f.load[1] # p
           /\ up'[p] = up[p] /\ down'[p] = down[p]
           /\ entry[Other(p[1])][idOf[p[2]]] = p[2] => entry'[Other(p[1])][idOf'[p[2]]] = p[2]
  PROVE  PipeOk(p)'
<1>1. ASSUME p[2] \notin broken', CloseLast(p), Phase(p) PROVE CloseLast(p)' /\ Phase(p)'
  <2>1. Len(wire[p[1]]) \in Nat
    BY QueueFacts
  <2>2. CloseLast(p)'
    BY <1>1, <2>1, CloseLastKept
  <2>3. s = 0 \/ ~Opening(p, 1)
    BY <1>1 DEF Opening
  <2>4. Phase(p)'
    BY <1>1, <2>3, PhaseKept
  <2>5. QED
    BY <2>2, <2>4
<1>2. p[2] \notin broken' => s = 0 \/ ~Carries(p, 1)
  BY DEF Carries
<1>3. QED
  BY <1>1, <1>2, PipeMoves

(* What a step does to the wire of p.                                      *)
LEMMA StillFor ==
  ASSUME NEW e \in Ends, NEW s, Shifts(e, s), NEW p \in Pipes, p[1] = e
  PROVE  \E f : Moves(p[1], s, f) /\ f.load[1] # p /\ f.type = "NONE"
<1> DEFINE f == [type |-> "NONE", load |-> <<<<Other(p[1]), p[2]>>, 0>>]
<1>1. f.load[1] # p /\ f.type = "NONE"
  BY EndsFacts
<1>2. Moves(p[1], s, f)
  BY ShiftsMove
<1>3. QED
  BY <1>1, <1>2

LEMMA SendFor ==
  ASSUME TypeInv, NEW e \in Ends, NEW g \in Frames, Send(e, g), NEW p \in Pipes, g.load[1][1] = e
  PROVE  \E f : /\ Moves(p[1], 0, f)
                /\ \/ f = g
                   \/ f.load[1] # p /\ f.type = "NONE" /\ p # g.load[1]
<1>1. Moves(e, 0, g) /\ Shifts(Other(e), 0)
  BY SendMoves
<1>2. CASE p[1] = e
  BY <1>1, <1>2
<1>3. CASE p[1] = Other(e)
  <2>1. p # g.load[1]
    BY <1>3, EndsFacts
  <2>2. QED
    BY <1>1, <1>3, <2>1, StillFor, EndsFacts
<1>4. QED
  BY <1>2, <1>3, EndsFacts

LEMMA TakenFor ==
  ASSUME TypeInv, NEW e \in Ends, wire[Other(e)] # <<>>, wire' = Taken(e), NEW p \in Pipes
  PROVE  \E s \in {0, 1} : \E f :
           /\ Moves(p[1], s, f) /\ f.load[1] # p /\ f.type = "NONE"
           /\ s = 0 \/ (p[1] = Other(e) /\ Arriving(e) = wire[p[1]][1])
<1>1. Shifts(Other(e), 1) /\ Shifts(e, 0) /\ Arriving(e) = wire[Other(e)][1]
  BY TakenMoves
<1>2. CASE p[1] = e
  BY <1>1, <1>2, StillFor
<1>3. CASE p[1] = Other(e)
  BY <1>1, <1>3, StillFor, EndsFacts
<1>4. QED
  BY <1>2, <1>3, EndsFacts

(* The entry of one connection is not that of another.                     *)
LEMMA OtherEntryKept ==
  ASSUME EndsInv, NEW e \in Ends, NEW c \in Registered, NEW x,
         entry' = [entry EXCEPT ![e][idOf[c]] = x],
         NEW p \in Pipes, p[2] # c \/ Other(p[1]) # e,
         entry[Other(p[1])][idOf[p[2]]] = p[2]
  PROVE  entry'[Other(p[1])][idOf[p[2]]] = p[2]
<1>1. /\ Other(p[1]) \in Ends /\ p[2] \in Conns /\ p[2] # NoConn /\ idOf[p[2]] \in Ids
      /\ entry \in [Ends -> [Ids -> Conns \cup {NoConn}]]
  BY EndsFacts DEF EndsInv, TypeInv, TaskTypes
<1>2. CASE Other(p[1]) # e
  BY <1>1, <1>2
<1>3. CASE p[2] # c
  <2>1. p[2] \in Registered
    BY <1>1 DEF EndsInv, EntryInv
  <2>2. idOf[p[2]] # idOf[c]
    BY <1>3, <2>1 DEF EndsInv, IdInv
  <2>3. QED
    BY <1>1, <2>2
<1>4. QED
  BY <1>2, <1>3

(* The actions of the opener.                                              *)
LEMMA ClientRegisterPipe ==
  ASSUME EndsInv, NEW p \in Pipes, PipeOk(p), NEW c \in Conns, ClientRegister(c)
  PROVE  PipeOk(p)'
<1>1. TypeInv /\ p[1] \in Ends /\ p[2] \in Conns
  BY EndsFacts DEF EndsInv
<1>2. /\ up[<<"client", c>>] = "off" /\ UNCHANGED <<wire, chan, sent, got, broken>>
      /\ idOf' = [idOf EXCEPT ![c] = AllocId] /\ entry' = [entry EXCEPT !["client"][AllocId] = c]
      /\ up' = [up EXCEPT ![<<"client", c>>] = "opening"]
      /\ down' = [down EXCEPT ![<<"server", c>>] = "wait"]
  BY DEF ClientRegister
<1>3. Shifts(p[1], 0) /\ c \in Conns \ Registered
  BY <1>1, <1>2, UnchangedShifts DEF Registered
<1>4. PICK f : Moves(p[1], 0, f) /\ f.load[1] # p /\ f.type = "NONE"
  BY <1>1, <1>3, StillFor
<1>5. AllocId \in Ids /\ \A d \in Registered : idOf[d] # AllocId
  BY <1>3, FreshId
<1>6. CASE p[2] # c
  <2>1. p # <<"client", c>> /\ p # <<"server", c>>
    BY <1>6
  <2>2. up'[p] = up[p] /\ down'[p] = down[p] /\ idOf'[p[2]] = idOf[p[2]]
    BY <1>1, <1>2, <1>6, <2>1 DEF TypeInv, TaskTypes
  <2>3. ASSUME entry[Other(p[1])][idOf[p[2]]] = p[2]
        PROVE  entry'[Other(p[1])][idOf'[p[2]]] = p[2]
    <3>1. idOf[p[2]] \in Ids /\ p[2] # NoConn /\ Other(p[1]) \in Ends
      BY <1>1, EndsFacts DEF TypeInv, TaskTypes
    <3>2. p[2] \in Registered
      BY <2>3, <3>1 DEF EndsInv, EntryInv
    <3>3. idOf[p[2]] # AllocId
      BY <1>5, <3>2
    <3>4. QED
      BY <1>1, <1>2, <2>2, <2>3, <3>1, <3>3 DEF TypeInv, TaskTypes
  <2>4. QED
    BY <1>1, <1>2, <1>4, <2>2, <2>3, OthersKept
<1>7. CASE p[2] = c
  <2>1. /\ down[<<"client", c>>] = "off" /\ down[<<"server", c>>] = "off"
        /\ up[<<"server", c>>] = "off"
    BY <1>2 DEF EndsInv, StatusInv
  <2>2. Len(wire[p[1]]) \in Nat
    BY <1>1, QueueFacts
  <2>3. up[p] = "off" /\ up'[p] \in {"off", "opening"}
    <3>1. p = <<"client", c>> \/ p = <<"server", c>>
      BY <1>1, <1>7, EndsFacts
    <3>2. QED
      BY <1>1, <1>2, <2>1, <3>1 DEF TypeInv, TaskTypes
  <2>4. ASSUME CloseLast(p), Phase(p) PROVE CloseLast(p)' /\ Phase(p)'
    <3>1. CloseLast(p)'
      BY <1>4, <2>2, <2>3, <2>4, CloseLastKept
    <3>2. CASE p = <<"client", c>>
      <4>1. down[p] = "off" /\ down'[p] = "off"
        BY <1>1, <1>2, <2>1, <3>2 DEF TypeInv, TaskTypes
      <4>2. Phase(p)'
        BY <1>4, <2>3, <2>4, <4>1, PhaseKept
      <4>3. QED
        BY <3>1, <4>2
    <3>3. CASE p = <<"server", c>>
      <4>1. down'[p] = "wait" /\ Other(p[1]) = "client" /\ idOf'[c] = AllocId
            /\ entry'["client"][AllocId] = c
        BY <1>1, <1>2, <1>5, <3>3, EndsFacts DEF TypeInv, TaskTypes
      <4>2. Phase(p)'
        BY <1>7, <4>1 DEF Phase
      <4>3. QED
        BY <3>1, <4>2
    <3>4. QED
      BY <1>1, <1>7, <3>2, <3>3, EndsFacts
  <2>5. QED
    BY <1>2, <1>4, <2>4, PipeMoves
<1>8. QED
  BY <1>6, <1>7

LEMMA ClientOpenPipe ==
  ASSUME EndsInv, NEW p \in Pipes, PipeOk(p), NEW c \in Conns, ClientOpen(c)
  PROVE  PipeOk(p)'
<1> DEFINE g == Frame("OPEN", c, <<"client", c>>, 0)
<1>1. TypeInv /\ p[1] \in Ends /\ p[2] \in Conns /\ DeadInv
  BY EndsFacts DEF EndsInv
<1>2. /\ up[<<"client", c>>] = "opening" /\ UNCHANGED <<idOf, entry, chan, sent, got, broken, dead>>
  BY DEF ClientOpen
<1>3. g \in Frames /\ g.load[1] = <<"client", c>> /\ g.type = "OPEN"
  BY <1>1, FrameType, EndsFacts
<1>4. CASE dead
  <2>1. wire' = wire /\ p[2] \in broken'
    BY <1>1, <1>2, <1>4 DEF ClientOpen, Send, DeadInv
  <2>2. PICK f : Moves(p[1], 0, f) /\ f.load[1] # p /\ f.type = "NONE"
    BY <1>1, <2>1, UnchangedShifts, StillFor
  <2>3. QED
    BY <1>1, <1>2, <2>1, <2>2, OthersKept
<1>5. CASE ~dead
  <2>1. /\ Send("client", g) /\ up' = [up EXCEPT ![<<"client", c>>] = "read"]
        /\ down' = [down EXCEPT ![<<"server", c>>] = "recv"]
    BY <1>5 DEF ClientOpen
  <2>2. /\ down[<<"client", c>>] = "off" /\ down[<<"server", c>>] = "wait"
        /\ up[<<"server", c>>] = "off"
    BY <1>2 DEF EndsInv, StatusInv
  <2> HIDE DEF g
  <2>3. g.load[1][1] = "client" /\ "client" \in Ends
    BY <1>3, EndsFacts
  <2>4. PICK f : /\ Moves(p[1], 0, f)
                 /\ \/ f = g
                    \/ f.load[1] # p /\ f.type = "NONE" /\ p # g.load[1]
    BY <1>1, <1>3, <2>1, <2>3, SendFor
  <2>5. Len(wire[p[1]]) \in Nat
    BY <1>1, QueueFacts
  <2>6. CASE p = <<"client", c>>
    <3>1. f = g /\ up[p] = "opening" /\ up'[p] = "read" /\ down'[p] = "off"
      BY <1>1, <1>2, <1>3, <2>1, <2>2, <2>4, <2>6 DEF TypeInv, TaskTypes
    <3>2. CloseLast(p) => CloseLast(p)'
      BY <1>3, <2>4, <2>5, <3>1, CloseLastKept
    <3>3. /\ Len(wire'[p[1]]) \in 1..Len(wire'[p[1]]) /\ wire'[p[1]][Len(wire'[p[1]])] = g
      <4>1. Len(wire'["client"]) = Len(wire["client"]) + 1 /\ wire'["client"][Len(wire'["client"])] = g
        BY <1>1, <1>3, <2>1, <2>3, SendFacts
      <4>2. QED
        BY <2>5, <2>6, <4>1
    <3>4. Phase(p)'
      BY <1>3, <2>6, <3>1, <3>3 DEF Phase, Opening
    <3>5. QED
      BY <1>2, <1>3, <2>4, <3>1, <3>2, <3>4, PipeMoves
  <2>7. CASE p # <<"client", c>>
    <3>1. f.load[1] # p /\ f.type # "DATA" /\ up'[p] = up[p]
      BY <1>1, <1>3, <2>1, <2>4, <2>7 DEF TypeInv, TaskTypes
    <3>2. CASE p = <<"server", c>>
      <4>1. down[p] = "wait" /\ down'[p] = "recv"
        BY <1>1, <2>1, <2>2, <3>2 DEF TypeInv, TaskTypes
      <4>2. CloseLast(p) => CloseLast(p)'
        BY <2>4, <2>5, <3>1, CloseLastKept
      <4>3. Phase(p) => Phase(p)'
        BY <1>2, <2>4, <3>1, <4>1, PhaseKept
      <4>4. QED
        BY <1>2, <2>4, <3>1, <4>2, <4>3, PipeMoves
    <3>3. CASE p # <<"server", c>>
      <4>1. down'[p] = down[p]
        BY <1>1, <2>1, <3>3 DEF TypeInv, TaskTypes
      <4>2. QED
        BY <1>1, <1>2, <2>4, <3>1, <4>1, OthersKept
    <3>4. QED
      BY <3>2, <3>3
  <2>8. QED
    BY <2>6, <2>7
<1>6. QED
  BY <1>4, <1>5

LEMMA DialOkPipe ==
  ASSUME EndsInv, NEW p \in Pipes, PipeOk(p), NEW c \in Conns, DialOk(c)
  PROVE  PipeOk(p)'
<1>1. TypeInv /\ p[1] \in Ends /\ p[2] \in Conns
  BY EndsFacts DEF EndsInv
<1>2. /\ up[<<"server", c>>] = "dial" /\ UNCHANGED <<wire, idOf, entry, chan, sent, got, broken>>
      /\ up' = [up EXCEPT ![<<"server", c>>] = "read"]
      /\ down' = [down EXCEPT ![<<"client", c>>] = "recv"]
  BY DEF DialOk
<1>3. PICK f : Moves(p[1], 0, f) /\ f.load[1] # p /\ f.type = "NONE"
  BY <1>1, <1>2, UnchangedShifts, StillFor
<1>4. down[<<"client", c>>] = "wait"
  BY <1>2 DEF EndsInv, StatusInv
<1>5. Len(wire[p[1]]) \in Nat
  BY <1>1, QueueFacts
<1>6. /\ p = <<"server", c>> => up[p] = "dial" /\ up'[p] = "read"
      /\ p # <<"server", c>> => up'[p] = up[p]
      /\ p = <<"client", c>> => down[p] = "wait" /\ down'[p] = "recv"
      /\ p # <<"client", c>> => down'[p] = down[p]
  BY <1>1, <1>2, <1>4 DEF TypeInv, TaskTypes
<1>7. CloseLast(p) => CloseLast(p)'
  BY <1>3, <1>5, <1>6, CloseLastKept
<1>8. Phase(p) => Phase(p)'
  BY <1>2, <1>3, <1>6, PhaseKept
<1>9. QED
  BY <1>2, <1>3, <1>7, <1>8, PipeMoves

LEMMA DialFailsPipe ==
  ASSUME EndsInv, NEW p \in Pipes, PipeOk(p), NEW c \in Conns, DialFails(c)
  PROVE  PipeOk(p)'
<1> DEFINE g == Frame("CLOSE", c, <<"server", c>>, 0)
<1>1. TypeInv /\ p[1] \in Ends /\ p[2] \in Conns
  BY EndsFacts DEF EndsInv
<1>2. /\ up[<<"server", c>>] = "dial" /\ UNCHANGED <<idOf, chan, sent, got>>
      /\ entry' = [entry EXCEPT !["server"][idOf[c]] = NoConn]
      /\ up' = [up EXCEPT ![<<"server", c>>] = "done"]
      /\ down' = [down EXCEPT ![<<"client", c>>] = "gone"]
      /\ Send("server", g) \/ wire' = wire
      /\ broken' = broken \cup {c}
  BY DEF DialFails, BestEffort, Breaks
<1>3. g \in Frames /\ g.load[1] = <<"server", c>> /\ g.type = "CLOSE"
  BY <1>1, FrameType, EndsFacts
<1> HIDE DEF g
<1>4. PICK f : Moves(p[1], 0, f) /\ f.type # "DATA" /\ (f.load[1] # p \/ p[2] = c)
  <2>1. CASE Send("server", g)
    <3>1. g.load[1][1] = "server" /\ g.load[1][2] = c /\ "server" \in Ends
      BY <1>3, EndsFacts
    <3>2. QED
      BY <1>1, <1>3, <2>1, <3>1, SendFor
  <2>2. CASE wire' = wire
    BY <1>1, <2>2, UnchangedShifts, StillFor
  <2>3. QED
    BY <1>2, <2>1, <2>2
<1>5. c \in Registered /\ "server" \in Ends
  BY <1>2, EndsFacts DEF EndsInv, StatusInv, Registered
<1>6. ASSUME p[2] # c
      PROVE  /\ up'[p] = up[p] /\ down'[p] = down[p]
             /\ entry[Other(p[1])][idOf[p[2]]] = p[2] => entry'[Other(p[1])][idOf'[p[2]]] = p[2]
  <2>1. p # <<"server", c>> /\ p # <<"client", c>>
    BY <1>6
  <2>2. up'[p] = up[p] /\ down'[p] = down[p]
    BY <1>1, <1>2, <2>1 DEF TypeInv, TaskTypes
  <2>3. QED
    BY <1>2, <1>5, <1>6, <2>2, OtherEntryKept
<1>7. QED
  BY <1>1, <1>2, <1>4, <1>6, OthersKept

(* The uplink.                                                             *)
LEMMA UplinkPipe ==
  ASSUME EndsInv, NEW p \in Pipes, PipeOk(p), NEW q \in Pipes, UplinkData(q) \/ UplinkEnd(q)
  PROVE  PipeOk(p)'
<1> DEFINE g == Frame("DATA", q[2], q, sent[q] + 1)
           h == Frame("CLOSE", q[2], q, 0)
<1>1. TypeInv /\ p[1] \in Ends /\ p[2] \in Conns /\ q[1] \in Ends /\ q[2] \in Conns /\ DeadInv
  BY EndsFacts DEF EndsInv
<1>2. UNCHANGED <<idOf, entry, chan, down, got, broken>> /\ up[q] = "read"
  BY DEF UplinkData, UplinkEnd
<1>3. /\ g \in Frames /\ g.type = "DATA" /\ g.load[1] = q
      /\ h \in Frames /\ h.type = "CLOSE" /\ h.load[1] = q
  <2>1. sent[q] + 1 \in Nat
    BY <1>1 DEF TypeInv, TaskTypes
  <2>2. QED
    BY <1>1, <2>1, FrameType
<1>4. Len(wire[p[1]]) \in Nat
  BY <1>1, QueueFacts
<1>5. CASE UplinkData(q)
  <2>1. Send(q[1], g) /\ up' = up /\ sent' = [sent EXCEPT ![q] = @ + 1]
    BY <1>5 DEF UplinkData
  <2> HIDE DEF g, h
  <2>2. PICK f : /\ Moves(p[1], 0, f)
                 /\ \/ f = g
                    \/ f.load[1] # p /\ f.type = "NONE" /\ p # g.load[1]
    BY <1>1, <1>3, <2>1, SendFor
  <2>3. CASE p = q
    <3>1. f = g
      BY <1>3, <2>2, <2>3
    <3>2. CloseLast(p) => CloseLast(p)'
      BY <1>2, <1>3, <1>4, <2>1, <2>2, <2>3, <3>1, CloseLastKept
    <3>3. Phase(p) => Phase(p)'
      BY <1>2, <1>3, <2>1, <2>2, <2>3, <3>1, PhaseKept
    <3>4. ChanOrder(p)' /\ WireOrder(p)' /\ (Whole(p) => Whole(p)')
      BY <1>5, <2>3, UplinkDataPipe DEF PipeOk
    <3>5. QED
      BY <1>2, <3>2, <3>3, <3>4 DEF PipeOk
  <2>4. CASE p # q
    <3>1. f.load[1] # p /\ sent'[p] = sent[p]
      BY <1>1, <1>3, <2>1, <2>2, <2>4 DEF TypeInv, TaskTypes
    <3>2. QED
      BY <1>1, <1>2, <2>1, <2>2, <3>1, OthersKept
  <2>5. QED
    BY <2>3, <2>4
<1>6. CASE UplinkEnd(q)
  <2>1. /\ Send(q[1], h) \/ (dead /\ wire' = wire)
        /\ up' = [up EXCEPT ![q] = "done"] /\ sent' = sent
    BY <1>6 DEF UplinkEnd, BestEffort
  <2> HIDE DEF g, h
  <2>2. CASE dead /\ wire' = wire
    <3>1. p[2] \in broken'
      BY <1>1, <1>2, <2>2 DEF DeadInv
    <3>2. PICK f : Moves(p[1], 0, f) /\ f.load[1] # p /\ f.type = "NONE"
      BY <1>1, <2>2, UnchangedShifts, StillFor
    <3>3. QED
      BY <1>1, <1>2, <2>1, <3>1, <3>2, OthersKept
  <2>3. CASE Send(q[1], h)
    <3>1. PICK f : /\ Moves(p[1], 0, f)
                   /\ \/ f = h
                      \/ f.load[1] # p /\ f.type = "NONE" /\ p # h.load[1]
      BY <1>1, <1>3, <2>3, SendFor
    <3>2. CASE p = q
      <4>1. f = h /\ up'[p] = "done"
        BY <1>1, <1>3, <2>1, <3>1, <3>2 DEF TypeInv, TaskTypes
      <4>2. CloseLast(p) => CloseLast(p)'
        BY <1>2, <1>3, <1>4, <3>1, <3>2, <4>1, CloseLastKept
      <4>3. Phase(p) => Phase(p)'
        BY <1>2, <1>3, <3>1, <3>2, <4>1, PhaseKept
      <4>4. QED
        BY <1>2, <1>3, <2>1, <3>1, <4>1, <4>2, <4>3, PipeMoves
    <3>3. CASE p # q
      <4>1. f.load[1] # p /\ up'[p] = up[p] /\ f.type # "DATA"
        BY <1>1, <1>3, <2>1, <3>1, <3>3 DEF TypeInv, TaskTypes
      <4>2. QED
        BY <1>1, <1>2, <2>1, <3>1, <4>1, OthersKept
    <3>4. QED
      BY <3>2, <3>3
  <2>4. QED
    BY <2>1, <2>2, <2>3
<1>7. QED
  BY <1>5, <1>6

(* The downlink.                                                           *)
LEMMA DownlinkPipe ==
  ASSUME EndsInv, NEW p \in Pipes, PipeOk(p), NEW q \in Pipes, Downlink(q)
  PROVE  PipeOk(p)'
<1>1. TypeInv /\ p[1] \in Ends /\ p[2] \in Conns
  BY EndsFacts DEF EndsInv
<1>2. UNCHANGED <<idOf, entry, wire, up, sent>> /\ broken \subseteq broken'
  BY DEF Downlink, DownlinkWrite, DownlinkFails, DownlinkEnd, Breaks
<1>3. PICK f : Moves(p[1], 0, f) /\ f.load[1] # p /\ f.type = "NONE"
  BY <1>1, <1>2, UnchangedShifts, StillFor
<1>4. ASSUME p # q PROVE PipeOk(p)'
  <2>1. /\ chan'[p] = chan[p] /\ got'[p] = got[p] /\ down'[p] = down[p]
    BY <1>1, <1>4
       DEF Downlink, DownlinkWrite, DownlinkFails, DownlinkEnd, TypeInv, TaskTypes, QueueTypes
  <2>2. QED
    BY <1>1, <1>2, <1>3, <2>1, OthersKept
<1>5. Len(wire[p[1]]) \in Nat
  BY <1>1, QueueFacts
<1>6. CloseLast(p) => CloseLast(p)'
  BY <1>2, <1>3, <1>5, CloseLastKept
<1>7. ASSUME p = q, DownlinkWrite(p) PROVE PipeOk(p)'
  <2>1. down' = down /\ broken' = broken
    BY <1>7 DEF DownlinkWrite
  <2>2. Phase(p) => Phase(p)'
    BY <1>2, <1>3, <2>1, PhaseKept
  <2>3. ChanOrder(p)' /\ WireOrder(p)' /\ (Whole(p) => Whole(p)')
    BY <1>7, DownlinkWritePipe DEF PipeOk
  <2>4. QED
    BY <1>6, <2>1, <2>2, <2>3 DEF PipeOk
<1>8. ASSUME p = q, DownlinkFails(p) PROVE PipeOk(p)'
  <2>1. p[2] \in broken' /\ chan'[p] = <<>> /\ got' = got
    BY <1>1, <1>8 DEF DownlinkFails, Breaks, TypeInv, QueueTypes
  <2>2. Len(chan'[p]) = 0
    BY <2>1
  <2>3. ChanOrder(p)'
    <3>1. \A i \in 1..Len(chan'[p]) : FALSE
      BY <2>2
    <3>2. \A k \in 1..Len(got'[p]) : got'[p][k][2] <= sent'[p]
      BY <1>2, <2>1 DEF PipeOk, ChanOrder
    <3>3. QED
      BY <3>1, <3>2 DEF ChanOrder
  <2>4. WireOrder(p)'
    <3>1. \A i \in 1..Len(chan'[p]) : FALSE
      BY <2>2
    <3>2. \A k : (Carries(p, k)' <=> Carries(p, k)) /\ Number(p, k)' = Number(p, k)
      BY <1>2 DEF Carries, Number
    <3>3. WireOrder(p)
      BY DEF PipeOk
    <3>4. QED
      BY <1>2, <2>1, <3>1, <3>2, <3>3 DEF WireOrder
  <2>5. QED
    BY <2>1, <2>3, <2>4 DEF PipeOk
<1>9. ASSUME p = q, DownlinkEnd(p) PROVE PipeOk(p)'
  <2>1. UNCHANGED <<chan, got, broken>>
    BY <1>9 DEF DownlinkEnd
  <2>2. ASSUME p[2] \notin broken, Phase(p) PROVE Phase(p)'
    <3>1. down[p] = "recv" /\ \A i \in Ids : entry[Other(p[1])][i] # p[2]
      BY <1>9, <2>2 DEF DownlinkEnd, EndsInv, StatusInv
    <3>2. up[p] = "done" /\ Silent(p)
      BY <1>1, <2>2, <3>1 DEF Phase, TypeInv, TaskTypes
    <3>3. up'[p] = "done" /\ Silent(p)'
      BY <1>2, <3>2 DEF Silent
    <3>4. QED
      BY <3>3 DEF Phase
  <2>3. QED
    BY <1>2, <1>3, <1>6, <2>1, <2>2, PipeMoves
<1>10. QED
  BY <1>4, <1>7, <1>8, <1>9 DEF Downlink

(* The reader.                                                             *)
LEMMA ReaderOpenPipe ==
  ASSUME EndsInv, NEW p \in Pipes, PipeOk(p), NEW e \in Ends, ReaderOpen(e)
  PROVE  PipeOk(p)'
<1> DEFINE c == Conn(Arriving(e))
<1>1. TypeInv /\ p[1] \in Ends /\ p[2] \in Conns
  BY EndsFacts DEF EndsInv
<1>2. /\ wire[Other(e)] # <<>> /\ Arriving(e).type = "OPEN" /\ wire' = Taken(e)
      /\ UNCHANGED <<idOf, chan, sent, got, broken>>
  BY DEF ReaderOpen, Incoming, Arriving
<1>3. /\ e = "server" /\ Other(e) = "client" /\ c \in Conns /\ c \in Registered
      /\ Arriving(e).id = idOf[c] /\ Arriving(e).id \in Ids
      /\ Arriving(e) = wire["client"][1] /\ 1 \in 1..Len(wire["client"])
      /\ Arriving(e).load[1] = <<"client", c>>
      /\ up[<<"client", c>>] \notin {"off", "opening"}
  BY <1>2, ArrivingFacts, EndsFacts
<1>4. /\ entry' = [entry EXCEPT ![e][idOf[c]] = c]
      /\ up' = [up EXCEPT ![<<"server", c>>] = "dial"]
      /\ down' = [down EXCEPT ![<<"client", c>>] = "wait"]
  BY <1>3 DEF ReaderOpen, Conn
<1> HIDE DEF c
<1>5. PICK s, f :
           /\ s \in {0, 1}
           /\ Moves(p[1], s, f) /\ f.load[1] # p /\ f.type = "NONE"
           /\ s = 0 \/ (p[1] = Other(e) /\ Arriving(e) = wire[p[1]][1])
  BY <1>1, <1>2, TakenFor
<1>6. s = 0 \/ ~Carries(p, 1)
  BY <1>2, <1>5 DEF Carries
<1>7. Len(wire[p[1]]) \in Nat
  BY <1>1, QueueFacts
<1>8. up[<<"server", c>>] = "off" /\ down[<<"server", c>>] # "off"
  <2>1. Conn(wire["client"][1]) = c /\ wire["client"][1].type = "OPEN"
    BY <1>2, <1>3 DEF c
  <2>2. up[<<"server", c>>] = "off"
    BY <1>3, <2>1 DEF EndsInv, OpenInv
  <2>3. QED
    BY <1>3, <2>2 DEF EndsInv, StatusInv
<1>9. CASE p[2] # c
  <2>1. p # <<"server", c>> /\ p # <<"client", c>>
    BY <1>9
  <2>2. up'[p] = up[p] /\ down'[p] = down[p]
    BY <1>1, <1>4, <2>1 DEF TypeInv, TaskTypes
  <2>3. entry[Other(p[1])][idOf[p[2]]] = p[2] => entry'[Other(p[1])][idOf'[p[2]]] = p[2]
    BY <1>2, <1>3, <1>4, <1>9, OtherEntryKept
  <2>4. s = 0 \/ wire[p[1]][1].load[1] # p
    BY <1>3, <1>5, <2>1
  <2>5. QED
    BY <1>1, <1>2, <1>5, <2>2, <2>3, <2>4, OthersKept
<1>10. CASE p = <<"client", c>>
  <2>1. up'[p] = up[p] /\ down'[p] = "wait" /\ entry'["server"][idOf'[c]] = c
        /\ p[2] = c /\ Other(p[1]) = "server"
    BY <1>1, <1>2, <1>3, <1>4, <1>10, EndsFacts DEF TypeInv, TaskTypes
  <2>2. CloseLast(p) => CloseLast(p)'
    BY <1>5, <1>7, <2>1, CloseLastKept
  <2>3. Phase(p)'
    BY <2>1 DEF Phase
  <2>4. QED
    BY <1>2, <1>5, <1>6, <2>2, <2>3, PipeMoves
<1>11. CASE p = <<"server", c>>
  <2>1. /\ up[p] = "off" /\ down[p] # "off" /\ up'[p] = "dial" /\ down'[p] = down[p]
    BY <1>1, <1>4, <1>8, <1>11 DEF TypeInv, TaskTypes
  <2>2. Other(p[1]) # e
    BY <1>3, <1>11, EndsFacts
  <2>3. entry[Other(p[1])][idOf[p[2]]] = p[2] => entry'[Other(p[1])][idOf'[p[2]]] = p[2]
    BY <1>2, <1>3, <1>4, <2>2, OtherEntryKept
  <2>4. s = 0
    BY <1>3, <1>5, <1>11
  <2>5. CloseLast(p) => CloseLast(p)'
    BY <1>5, <1>7, <2>1, CloseLastKept
  <2>6. Phase(p) => Phase(p)'
    BY <1>5, <2>1, <2>3, <2>4, PhaseKept
  <2>7. QED
    BY <1>2, <1>5, <1>6, <2>5, <2>6, PipeMoves
<1>12. QED
  BY <1>1, <1>9, <1>10, <1>11, EndsFacts

LEMMA ReaderDataPipes ==
  ASSUME EndsInv, NEW p \in Pipes, PipeOk(p), NEW e \in Ends, ReaderData(e)
  PROVE  PipeOk(p)'
<1> DEFINE q == Arriving(e).load[1]
<1>1. TypeInv /\ p[1] \in Ends /\ p[2] \in Conns
  BY EndsFacts DEF EndsInv
<1>2. /\ wire[Other(e)] # <<>> /\ Arriving(e).type = "DATA" /\ wire' = Taken(e)
      /\ Addressee(e) # NoConn
      /\ chan' = [chan EXCEPT ![Inbound(e)] = Append(@, Arriving(e).load)]
      /\ UNCHANGED <<idOf, entry, up, down, sent, got, broken>>
  BY DEF ReaderData, Incoming, Arriving, Listening
<1>3. /\ Inbound(e) = q /\ q = <<Other(e), Conn(Arriving(e))>> /\ Conn(Arriving(e)) \in Conns
      /\ Arriving(e) = wire[Other(e)][1] /\ 1 \in 1..Len(wire[Other(e)])
  BY <1>2, ArrivingFacts
<1>4. q \in Pipes /\ q[1] = Other(e)
  BY <1>3, EndsFacts
<1>5. PICK s, f :
           /\ s \in {0, 1}
           /\ Moves(p[1], s, f) /\ f.load[1] # p /\ f.type = "NONE"
           /\ s = 0 \/ (p[1] = Other(e) /\ Arriving(e) = wire[p[1]][1])
  BY <1>1, <1>2, TakenFor
<1>6. CASE p # q
  <2>1. chan'[p] = chan[p]
    BY <1>1, <1>2, <1>3, <1>4, <1>6 DEF TypeInv, QueueTypes
  <2>2. s = 0 \/ wire[p[1]][1].load[1] # p
    BY <1>5, <1>6
  <2>3. QED
    BY <1>1, <1>2, <1>5, <2>1, <2>2, OthersKept
<1>7. CASE p = q
  <2>1. /\ Shifts(p[1], 1) /\ 1 \in 1..Len(wire[p[1]]) /\ Carries(p, 1)
        /\ chan'[p] = Append(chan[p], wire[p[1]][1].load)
    <3>1. Shifts(p[1], 1)
      BY <1>1, <1>2, <1>4, <1>7, TakenMoves
    <3>2. 1 \in 1..Len(wire[p[1]]) /\ Carries(p, 1)
      BY <1>2, <1>3, <1>4, <1>7 DEF Carries
    <3>3. chan'[p] = Append(chan[p], wire[p[1]][1].load)
      BY <1>1, <1>2, <1>3, <1>4, <1>7 DEF TypeInv, QueueTypes
    <3>4. QED
      BY <3>1, <3>2, <3>3
  <2>2. Len(wire'[p[1]]) \in Nat
    <3>1. wire' \in [Ends -> Seq(Frames)]
      BY <1>1, <1>2, TakenMoves
    <3>2. QED
      BY <1>1, <3>1
  <2>3. ChanOrder(p)' /\ WireOrder(p)' /\ (Whole(p) => Whole(p)')
    BY <1>2, <2>1, <2>2, ReaderDataPipe DEF PipeOk
  <2>4. Len(wire[p[1]]) \in Nat
    BY <1>1, QueueFacts
  <2>5. CloseLast(p) => CloseLast(p)'
    BY <1>2, <1>5, <2>4, CloseLastKept
  <2>6. ~Opening(p, 1)
    BY <2>1 DEF Opening, Carries
  <2>7. Phase(p) => Phase(p)'
    BY <1>2, <1>5, <2>6, PhaseKept
  <2>8. QED
    BY <1>2, <2>3, <2>5, <2>7 DEF PipeOk
<1>8. QED
  BY <1>6, <1>7

LEMMA ReaderStalledPipe ==
  ASSUME EndsInv, NEW p \in Pipes, PipeOk(p), NEW e \in Ends, ReaderStalled(e)
  PROVE  PipeOk(p)'
<1> DEFINE c == Conn(Arriving(e))
<1>1. TypeInv /\ p[1] \in Ends /\ p[2] \in Conns
  BY EndsFacts DEF EndsInv
<1>2. /\ wire[Other(e)] # <<>> /\ Addressee(e) # NoConn
      /\ UNCHANGED <<wire, chan, idOf, up, down, sent, got>>
      /\ entry' = [entry EXCEPT ![e][Arriving(e).id] = NoConn]
      /\ broken' = broken \cup {Addressee(e)}
  BY DEF ReaderStalled, Incoming, Listening, Breaks
<1>3. Addressee(e) = c /\ Arriving(e).id = idOf[c] /\ c \in Registered
  BY <1>2, ArrivingFacts
<1> HIDE DEF c
<1>4. PICK f : Moves(p[1], 0, f) /\ f.load[1] # p /\ f.type = "NONE"
  BY <1>1, <1>2, UnchangedShifts, StillFor
<1>5. p[2] # c => (entry[Other(p[1])][idOf[p[2]]] = p[2] => entry'[Other(p[1])][idOf'[p[2]]] = p[2])
  BY <1>2, <1>3, OtherEntryKept
<1>6. QED
  BY <1>1, <1>2, <1>3, <1>4, <1>5, OthersKept

(* Only a chunk of a broken connection is refused.                         *)
LEMMA RefusesBroken ==
  ASSUME EndsInv, PipeInv, NEW e \in Ends, ReaderRefuses(e)
  PROVE  Conn(Arriving(e)) \in broken
<1> DEFINE c == Conn(Arriving(e))
           q == <<Other(e), c>>
<1>1. wire[Other(e)] # <<>> /\ Arriving(e).type = "DATA" /\ ~Listening(e)
  BY DEF ReaderRefuses, Incoming, Arriving
<1>2. /\ Arriving(e) = wire[Other(e)][1] /\ 1 \in 1..Len(wire[Other(e)])
      /\ Arriving(e).load[1] = q /\ c \in Conns /\ Arriving(e).id = idOf[c]
  BY <1>1, ArrivingFacts
<1>3. q \in Pipes /\ q[1] = Other(e) /\ q[2] = c /\ Other(q[1]) = e /\ c # NoConn
  BY <1>2, EndsFacts
<1> SUFFICES ASSUME c \notin broken PROVE FALSE
  OBVIOUS
<1>4. Phase(q)
  BY <1>3 DEF PipeInv, PipeOk
<1>5. ~Silent(q)
  BY <1>2, <1>3 DEF Silent
<1>6. ~(down[q] \in {"wait", "recv"} /\ entry[e][idOf[c]] = c)
  BY <1>1, <1>2, <1>3 DEF Listening, Addressee, Inbound
<1>7. ASSUME NEW k \in 1..Len(wire[q[1]]), Opening(q, k) PROVE FALSE
  <2>1. wire[Other(e)][k].type = "OPEN" /\ Conn(wire[Other(e)][k]) = c /\ k \in 1..Len(wire[Other(e)])
    BY <1>3, <1>7 DEF Opening, Conn
  <2>2. Other(e) = "client"
    BY <2>1, OnlyClientOpens, EndsFacts
  <2>3. k # 1 /\ Conn(wire["client"][1]) = c
    BY <1>1, <1>2, <2>1, <2>2
  <2>4. 1 \in 1..(k - 1)
    BY <1>7, <2>3
  <2>5. Conn(wire["client"][1]) # Conn(wire["client"][k])
    BY <2>1, <2>2, <2>4 DEF EndsInv, OpenInv
  <2>6. QED
    BY <2>1, <2>2, <2>3, <2>5
<1>8. QED
  BY <1>3, <1>4, <1>5, <1>6, <1>7 DEF Phase

LEMMA ReaderRefusesPipe ==
  ASSUME EndsInv, PipeInv, NEW p \in Pipes, NEW e \in Ends, ReaderRefuses(e)
  PROVE  PipeOk(p)'
<1> DEFINE c == Conn(Arriving(e))
           g == Frame("CLOSE", c, <<e, c>>, 0)
<1>1. TypeInv /\ p[1] \in Ends /\ p[2] \in Conns /\ PipeOk(p)
  BY EndsFacts DEF EndsInv, PipeInv
<1>2. /\ wire[Other(e)] # <<>>
      /\ UNCHANGED <<idOf, entry, chan, up, down, sent, got, broken>>
  BY DEF ReaderRefuses, Incoming
<1>3. c \in broken /\ c \in Conns /\ Arriving(e).load[1] = <<Other(e), c>>
      /\ Arriving(e) = wire[Other(e)][1]
  BY <1>2, RefusesBroken, ArrivingFacts
<1>4. Moves(e, 0, g) /\ Shifts(Other(e), 1) /\ g.load[1] = <<e, c>> /\ g.type = "CLOSE"
  <2>1. g.load[1] = <<e, c>> /\ g.type = "CLOSE"
    BY DEF Frame
  <2>2. Moves(e, 0, g) /\ Shifts(Other(e), 1)
    BY RefusalMoves
  <2>3. QED
    BY <2>1, <2>2
<1> HIDE DEF c, g
<1>5. CASE p[1] = e
  <2>1. p[2] \notin broken' => g.load[1] # p
    BY <1>2, <1>3, <1>4
  <2>2. QED
    BY <1>1, <1>2, <1>4, <1>5, <2>1, OthersKept
<1>6. CASE p[1] = Other(e)
  <2>1. PICK f : Moves(p[1], 1, f) /\ f.load[1] # p /\ f.type = "NONE"
    BY <1>1, <1>4, <1>6, StillFor
  <2>2. p[2] \notin broken' => wire[p[1]][1].load[1] # p
    BY <1>2, <1>3, <1>6
  <2>3. QED
    BY <1>1, <1>2, <2>1, <2>2, OthersKept
<1>7. QED
  BY <1>1, <1>5, <1>6, EndsFacts

LEMMA ReaderClosePipe ==
  ASSUME EndsInv, NEW p \in Pipes, PipeOk(p), NEW e \in Ends, ReaderClose(e)
  PROVE  PipeOk(p)'
<1> DEFINE c == Conn(Arriving(e))
<1>1. TypeInv /\ p[1] \in Ends /\ p[2] \in Conns
  BY EndsFacts DEF EndsInv
<1>2. /\ wire[Other(e)] # <<>> /\ Arriving(e).type = "CLOSE" /\ wire' = Taken(e)
      /\ entry' = [entry EXCEPT ![e][Arriving(e).id] = NoConn]
      /\ UNCHANGED <<idOf, chan, up, down, sent, got, broken>>
  BY DEF ReaderClose, Incoming, Arriving
<1>3. /\ c \in Registered /\ Arriving(e).id = idOf[c] /\ Arriving(e).load[1] = <<Other(e), c>>
      /\ Arriving(e) = wire[Other(e)][1] /\ 1 \in 1..Len(wire[Other(e)])
  BY <1>2, ArrivingFacts
<1> HIDE DEF c
<1>4. PICK s, f :
           /\ s \in {0, 1}
           /\ Moves(p[1], s, f) /\ f.load[1] # p /\ f.type = "NONE"
           /\ s = 0 \/ (p[1] = Other(e) /\ Arriving(e) = wire[p[1]][1])
  BY <1>1, <1>2, TakenFor
<1>5. CASE p # <<Other(e), c>>
  <2>1. p[2] # c \/ Other(p[1]) # e
    BY <1>5, EndsFacts
  <2>2. entry[Other(p[1])][idOf[p[2]]] = p[2] => entry'[Other(p[1])][idOf'[p[2]]] = p[2]
    BY <1>2, <1>3, <2>1, OtherEntryKept
  <2>3. s = 0 \/ wire[p[1]][1].load[1] # p
    BY <1>3, <1>4, <1>5
  <2>4. QED
    BY <1>1, <1>2, <1>4, <2>2, <2>3, OthersKept
<1>6. CASE p = <<Other(e), c>>
  <2>1. Closing(p, 1) /\ 1 \in 1..Len(wire[p[1]]) /\ ~Carries(p, 1) /\ Shifts(p[1], 1)
    BY <1>1, <1>2, <1>3, <1>6, TakenMoves DEF Closing, Carries
  <2>2. Len(wire[p[1]]) \in Nat
    BY <1>1, QueueFacts
  <2>3. CloseLast(p) => CloseLast(p)'
    BY <1>2, <1>4, <2>2, CloseLastKept
  <2>4. ASSUME CloseLast(p) PROVE Phase(p)'
    <3>1. up'[p] = "done"
      BY <1>2, <2>1, <2>4 DEF CloseLast
    <3>2. ASSUME NEW k \in 1..Len(wire'[p[1]]) PROVE wire'[p[1]][k].load[1] # p
      <4>1. PICK j \in 1..Len(wire[p[1]]) : j = k + 1 /\ wire'[p[1]][k] = wire[p[1]][j]
        BY <2>1 DEF Shifts
      <4>2. 1 < j
        BY <4>1
      <4>3. QED
        BY <2>1, <2>4, <4>1, <4>2 DEF CloseLast
    <3>3. QED
      BY <3>1, <3>2 DEF Phase, Silent
  <2>5. QED
    BY <1>2, <1>4, <2>1, <2>3, <2>4, PipeMoves
<1>7. QED
  BY <1>5, <1>6

LEMMA BadRecordPipe ==
  ASSUME EndsInv, NEW p \in Pipes, PipeOk(p), NEW e \in Ends, BadRecord(e)
  PROVE  PipeOk(p)'
<1>1. TypeInv /\ p[1] \in Ends /\ p[2] \in Conns
  BY EndsFacts DEF EndsInv
<1>2. /\ wire[Other(e)] # <<>> /\ wire' = Taken(e)
      /\ broken' = broken \cup {Arriving(e).load[1][2]}
      /\ UNCHANGED <<idOf, entry, chan, up, down, sent, got>>
  BY DEF BadRecord, Breaks
<1>3. PICK s, f :
           /\ s \in {0, 1}
           /\ Moves(p[1], s, f) /\ f.load[1] # p /\ f.type = "NONE"
           /\ s = 0 \/ (p[1] = Other(e) /\ Arriving(e) = wire[p[1]][1])
  BY <1>1, <1>2, TakenFor
<1>4. p[2] \notin broken' => s = 0 \/ wire[p[1]][1].load[1] # p
  BY <1>2, <1>3
<1>5. QED
  BY <1>1, <1>2, <1>3, <1>4, OthersKept

LEMMA DiesPipe ==
  ASSUME EndsInv, NEW p \in Pipes, PipeOk(p), Dies
  PROVE  PipeOk(p)'
<1>1. p[1] \in Ends /\ p[2] \in Conns
  BY EndsFacts
<1>2. p[2] \in broken' /\ wire'[p[1]] = <<>> /\ UNCHANGED <<chan, sent, got>>
  BY <1>1 DEF Dies, Breaks
<1>3. \A k \in 1..Len(wire'[p[1]]) : FALSE
  BY <1>2
<1>4. ChanOrder(p)'
  BY <1>2 DEF PipeOk, ChanOrder
<1>5. WireOrder(p)'
  BY <1>3 DEF WireOrder
<1>6. QED
  BY <1>2, <1>4, <1>5 DEF PipeOk

LEMMA PipeNext == EndsInv /\ PipeInv /\ [Next]_vars => PipeInv'
<1> SUFFICES ASSUME EndsInv, PipeInv, [Next]_vars, NEW p \in Pipes PROVE PipeOk(p)'
  BY DEF PipeInv
<1>1. PipeOk(p) /\ TypeInv /\ p[1] \in Ends
  BY EndsFacts DEF PipeInv, EndsInv
<1>2. ASSUME UNCHANGED vars PROVE PipeOk(p)'
  <2>1. PICK f : Moves(p[1], 0, f) /\ f.load[1] # p /\ f.type = "NONE"
    BY <1>1, <1>2, UnchangedShifts, StillFor DEF vars
  <2>2. QED
    BY <1>1, <1>2, <2>1, OthersKept DEF vars
<1>3. ASSUME NEW c \in Conns, Opener(c) PROVE PipeOk(p)'
  BY <1>1, <1>3, ClientRegisterPipe, ClientOpenPipe, DialOkPipe, DialFailsPipe DEF Opener
<1>4. ASSUME NEW q \in Pipes, UplinkData(q) \/ UplinkEnd(q) \/ Downlink(q) PROVE PipeOk(p)'
  BY <1>1, <1>4, UplinkPipe, DownlinkPipe
<1>5. ASSUME NEW e \in Ends, Reader(e) \/ BadRecord(e) PROVE PipeOk(p)'
  BY <1>1, <1>5, ReaderOpenPipe, ReaderDataPipes, ReaderStalledPipe, ReaderRefusesPipe,
     ReaderClosePipe, BadRecordPipe DEF Reader
<1>6. QED
  BY <1>1, <1>2, <1>3, <1>4, <1>5, DiesPipe DEF Next

LEMMA PipeInvariant == Spec => []PipeInv
<1>1. Init => PipeInv
  <2> SUFFICES ASSUME Init, NEW p \in Pipes PROVE PipeOk(p)
    BY DEF PipeInv
  <2>1. /\ p[1] \in Ends /\ wire[p[1]] = <<>> /\ chan[p] = <<>> /\ got[p] = <<>> /\ sent[p] = 0
        /\ up[p] = "off" /\ down[p] = "off"
    BY EndsFacts DEF Init
  <2>2. /\ \A k \in 1..Len(wire[p[1]]) : FALSE
        /\ \A k \in 1..Len(chan[p]) : FALSE
        /\ \A k \in 1..Len(got[p]) : FALSE
    BY <2>1
  <2>3. Arrived(p) = 0 /\ \A n \in (Arrived(p) + 1)..sent[p] : FALSE
    BY <2>1 DEF Arrived
  <2>4. ChanOrder(p) /\ WireOrder(p)
    BY <2>2 DEF ChanOrder, WireOrder
  <2>5. Whole(p)
    BY <2>1, <2>2, <2>3 DEF Whole
  <2>6. CloseLast(p) /\ Phase(p)
    BY <2>1, <2>2 DEF CloseLast, Phase, Silent
  <2>7. QED
    BY <2>4, <2>5, <2>6 DEF PipeOk
<1>2. QED
  BY <1>1, EndsInvariant, PipeNext, PTL DEF Spec

-----------------------------------------------------------------------------
(* The refinement: one step of the ends is a step of the pipes.            *)
LEMMA StreamInit == Init => Stream!Init
<1> SUFFICES ASSUME Init PROVE Stream!Init
  OBVIOUS
<1>1. \A p \in Pipes : (up[p] = "done") = FALSE /\ (down[p] = "done") = FALSE
  BY DEF Init
<1>2. \A p \in Pipes : (p[2] \in broken) = FALSE
  BY DEF Init
<1>3. [p \in Pipes |-> up[p] = "done"] = [p \in Pipes |-> FALSE]
  BY <1>1
<1>4. [p \in Pipes |-> down[p] = "done"] = [p \in Pipes |-> FALSE]
  BY <1>1
<1>5. [p \in Pipes |-> p[2] \in broken] = [p \in Pipes |-> FALSE]
  BY <1>2
<1>6. sent = [p \in Pipes |-> 0] /\ got = [p \in Pipes |-> <<>>]
  BY DEF Init
<1>7. QED
  BY <1>3, <1>4, <1>5, <1>6 DEF Stream!Init

(* Setting a flag.                                                         *)
LEMMA FlagSet ==
  ASSUME NEW S, NEW f, NEW g \in [S -> BOOLEAN], f = [x \in S |-> f[x]], NEW q \in S,
         g[q] = TRUE, \A x \in S : x # q => g[x] = f[x]
  PROVE  g = [f EXCEPT ![q] = TRUE]
  OBVIOUS

(* Nothing a pipe shows has changed.                                       *)
LEMMA StreamStutters ==
  ASSUME TypeInv, UNCHANGED <<sent, got, broken>>,
         \A p \in Pipes : (up'[p] = "done") = (up[p] = "done"),
         \A p \in Pipes : (down'[p] = "done") = (down[p] = "done")
  PROVE  UNCHANGED Stream!vars
  BY DEF Stream!vars

(* Connections break; the senders that finish with it are theirs.          *)
LEMMA StreamBreaks ==
  ASSUME UNCHANGED <<sent, got>>, broken \subseteq broken',
         \A p \in Pipes : up[p] = "done" => up'[p] = "done",
         \A p \in Pipes : up'[p] # up[p] => p[2] \in broken',
         \A p \in Pipes : (down'[p] = "done") = (down[p] = "done")
  PROVE  Stream!Break
  BY DEF Stream!Break

LEMMA StreamCloses ==
  ASSUME TypeInv, UNCHANGED <<sent, got, broken>>, NEW q \in Pipes, up' = [up EXCEPT ![q] = "done"],
         \A p \in Pipes : (down'[p] = "done") = (down[p] = "done")
  PROVE  Stream!Close(q)
<1>1. \A p \in Pipes : up'[p] = IF p = q THEN "done" ELSE up[p]
  BY DEF TypeInv, TaskTypes
<1> DEFINE f == [p \in Pipes |-> up[p] = "done"]
           g == [p \in Pipes |-> up'[p] = "done"]
<1>2. g = [f EXCEPT ![q] = TRUE]
  <2>1. g \in [Pipes -> BOOLEAN] /\ f = [x \in Pipes |-> f[x]]
    OBVIOUS
  <2>2. g[q] = TRUE
    BY <1>1
  <2>3. \A x \in Pipes : x # q => g[x] = f[x]
    BY <1>1
  <2> HIDE DEF f, g
  <2>4. QED
    BY <2>1, <2>2, <2>3, FlagSet
<1>3. [p \in Pipes |-> down'[p] = "done"] = [p \in Pipes |-> down[p] = "done"]
  OBVIOUS
<1>4. [p \in Pipes |-> p[2] \in broken'] = [p \in Pipes |-> p[2] \in broken]
  OBVIOUS
<1>5. QED
  BY <1>2, <1>3, <1>4 DEF Stream!Close

LEMMA StreamSends ==
  ASSUME TypeInv, NEW q \in Pipes, UplinkData(q)
  PROVE  Stream!Send(q)
<1>1. ~([p \in Pipes |-> up[p] = "done"][q])
  BY DEF UplinkData
<1>2. sent' = [sent EXCEPT ![q] = @ + 1] /\ UNCHANGED <<got, up, down, broken>>
  BY DEF UplinkData
<1>3. QED
  BY <1>1, <1>2 DEF Stream!Send

(* A chunk that waits is the next of its pipe, or a later one of a broken  *)
(* pipe.                                                                   *)
LEMMA StreamReceives ==
  ASSUME TypeInv, NEW q \in Pipes, PipeOk(q), DownlinkWrite(q)
  PROVE  Stream!Receive(q)
<1> DEFINE n == chan[q][1][2]
<1>1. /\ down[q] = "recv" /\ chan[q] # <<>> /\ UNCHANGED <<sent, up, down, broken>>
      /\ got' = [got EXCEPT ![q] = Append(@, Head(chan[q]))]
  BY DEF DownlinkWrite
<1>2. /\ chan[q] \in Seq(Pipes \X Nat) /\ Len(chan[q]) \in Nat /\ Len(got[q]) \in Nat
  BY QueueFacts
<1>3. Head(chan[q]) = chan[q][1] /\ 1 \in 1..Len(chan[q])
  BY <1>1, <1>2, EmptySeq
<1>4. chan[q][1][1] = q /\ n \in 1..sent[q] /\ \A k \in 1..Len(got[q]) : got[q][k][2] < n
  BY <1>3 DEF PipeOk, ChanOrder
<1>5. Head(chan[q]) = <<q, n>>
  <2>1. chan[q][1] \in Pipes \X Nat
    BY <1>2, <1>3
  <2>2. QED
    BY <1>3, <1>4, <2>1
<1>6. q[2] \in broken \/ n = Len(got[q]) + 1
  BY <1>3 DEF PipeOk, Whole
<1>7. ~([p \in Pipes |-> down[p] = "done"][q])
  BY <1>1
<1>8. [p \in Pipes |-> p[2] \in broken][q] = (q[2] \in broken)
  OBVIOUS
<1> HIDE DEF n
<1>9. got' = [got EXCEPT ![q] = Append(@, <<q, n>>)]
  BY <1>1, <1>5
<1>10. QED
  BY <1>1, <1>4, <1>6, <1>7, <1>8, <1>9 DEF Stream!Receive

(* A FIN follows the last chunk of a sender that has finished, or a fault. *)
LEMMA StreamEnds ==
  ASSUME EndsInv, NEW q \in Pipes, PipeOk(q), DownlinkEnd(q)
  PROVE  Stream!End(q)
<1>1. TypeInv /\ Other(q[1]) \in Ends /\ q[2] \in Conns
  BY EndsFacts DEF EndsInv
<1>2. UNCHANGED <<sent, got, up, broken>> /\ down' = [down EXCEPT ![q] = "done"]
  BY DEF DownlinkEnd
<1>3. ASSUME q[2] \notin broken PROVE up[q] = "done" /\ Len(got[q]) = sent[q]
  <2>1. down[q] = "recv" /\ chan[q] = <<>> /\ \A i \in Ids : entry[Other(q[1])][i] # q[2]
    BY <1>3 DEF DownlinkEnd, EndsInv, StatusInv
  <2>2. Whole(q) /\ Phase(q)
    BY <1>3 DEF PipeOk
  <2>3. up[q] = "done" /\ Silent(q)
    BY <1>1, <2>1, <2>2 DEF Phase, TypeInv, TaskTypes
  <2>4. Len(got[q]) \in Nat /\ sent[q] \in Nat /\ Len(chan[q]) = 0
    BY <1>1, <2>1, QueueFacts
  <2>5. Arrived(q) = Len(got[q]) + 0
    BY <2>4, ArrivedFacts
  <2>6. PICK g \in Nat : g = Len(got[q]) /\ Arrived(q) = g
    BY <2>4, <2>5
  <2>7. ~(sent[q] \in (g + 1)..sent[q])
    <3>1. ASSUME NEW k \in 1..Len(wire[q[1]]) PROVE ~Carries(q, k)
      BY <2>3 DEF Silent, Carries
    <3>2. QED
      BY <2>2, <2>6, <3>1 DEF Whole
  <2>8. g <= sent[q]
    BY <2>2, <2>6 DEF Whole
  <2>9. QED
    BY <2>3, <2>4, <2>6, <2>7, <2>8
<1> DEFINE f == [p \in Pipes |-> down[p] = "done"]
           g == [p \in Pipes |-> down'[p] = "done"]
<1>4. g = [f EXCEPT ![q] = TRUE]
  <2>0. \A p \in Pipes : down'[p] = IF p = q THEN "done" ELSE down[p]
    BY <1>1, <1>2 DEF TypeInv, TaskTypes
  <2>1. g \in [Pipes -> BOOLEAN] /\ f = [x \in Pipes |-> f[x]]
    OBVIOUS
  <2>2. g[q] = TRUE
    BY <2>0
  <2>3. \A x \in Pipes : x # q => g[x] = f[x]
    BY <2>0
  <2> HIDE DEF f, g
  <2>4. QED
    BY <2>1, <2>2, <2>3, FlagSet
<1>5. /\ [p \in Pipes |-> p[2] \in broken][q] = (q[2] \in broken)
      /\ [p \in Pipes |-> up[p] = "done"][q] = (up[q] = "done")
  OBVIOUS
<1>6. QED
  BY <1>2, <1>3, <1>4, <1>5 DEF Stream!End

LEMMA StreamStep == EndsInv /\ PipeInv /\ [Next]_vars => [Stream!Next]_(Stream!vars)
<1> SUFFICES ASSUME EndsInv, PipeInv, [Next]_vars PROVE Stream!Next \/ UNCHANGED Stream!vars
  OBVIOUS
<1> USE EndsFacts
<1>1. TypeInv /\ StatusInv
  BY DEF EndsInv
<1> DEFINE Goal == Stream!Next \/ UNCHANGED Stream!vars
<1>2. ASSUME UNCHANGED <<sent, got, broken>>,
             \A p \in Pipes : (up'[p] = "done") = (up[p] = "done"),
             \A p \in Pipes : (down'[p] = "done") = (down[p] = "done")
      PROVE  Goal
  BY <1>1, <1>2, StreamStutters
<1>3. ASSUME Stream!Break \/ \E q \in Pipes : Stream!Send(q) \/ Stream!Close(q)
                                              \/ Stream!Receive(q) \/ Stream!End(q)
      PROVE  Goal
  BY <1>3 DEF Stream!Next
<1> HIDE DEF Goal
<1>4. ASSUME NEW c \in Conns, ClientRegister(c) PROVE Goal
  <2>1. /\ up[<<"client", c>>] = "off" /\ UNCHANGED <<sent, got, broken>>
        /\ up' = [up EXCEPT ![<<"client", c>>] = "opening"]
        /\ down' = [down EXCEPT ![<<"server", c>>] = "wait"]
    BY <1>4 DEF ClientRegister
  <2>2. down[<<"server", c>>] = "off"
    BY <1>1, <2>1 DEF StatusInv
  <2>3. QED
    BY <1>1, <1>2, <2>1, <2>2 DEF TypeInv, TaskTypes
<1>5. ASSUME NEW c \in Conns, ClientOpen(c) PROVE Goal
  <2>1. /\ up[<<"client", c>>] = "opening" /\ UNCHANGED <<sent, got, broken>>
        /\ \/ /\ up' = [up EXCEPT ![<<"client", c>>] = "read"]
              /\ down' = [down EXCEPT ![<<"server", c>>] = "recv"]
           \/ /\ up' = [up EXCEPT ![<<"client", c>>] = "done"]
              /\ down' = [down EXCEPT ![<<"server", c>>] = "gone"]
    BY <1>5 DEF ClientOpen
  <2>2. down[<<"server", c>>] = "wait"
    BY <1>1, <2>1 DEF StatusInv
  <2>3. \A p \in Pipes : (down'[p] = "done") = (down[p] = "done")
    BY <1>1, <2>1, <2>2, SMTT(30) DEF TypeInv, TaskTypes
  <2>4. CASE up' = [up EXCEPT ![<<"client", c>>] = "read"]
    <3>1. \A p \in Pipes : (up'[p] = "done") = (up[p] = "done")
      BY <1>1, <2>1, <2>4, ZenonT(60) DEF TypeInv, TaskTypes
    <3>2. QED
      BY <1>2, <2>1, <2>3, <3>1
  <2>5. CASE up' = [up EXCEPT ![<<"client", c>>] = "done"]
    <3>1. <<"client", c>> \in Pipes
      OBVIOUS
    <3>2. QED
      BY <1>1, <1>3, <2>1, <2>3, <2>5, <3>1, StreamCloses
  <2>6. QED
    BY <2>1, <2>4, <2>5
<1>6. ASSUME NEW c \in Conns, DialOk(c) PROVE Goal
  <2>1. /\ up[<<"server", c>>] = "dial" /\ UNCHANGED <<sent, got, broken>>
        /\ up' = [up EXCEPT ![<<"server", c>>] = "read"]
        /\ down' = [down EXCEPT ![<<"client", c>>] = "recv"]
    BY <1>6 DEF DialOk
  <2>2. down[<<"client", c>>] = "wait"
    BY <1>1, <2>1 DEF StatusInv
  <2>3. QED
    BY <1>1, <1>2, <2>1, <2>2 DEF TypeInv, TaskTypes
<1>7. ASSUME NEW c \in Conns, DialFails(c) PROVE Goal
  <2>1. /\ up[<<"server", c>>] = "dial" /\ UNCHANGED <<sent, got>>
        /\ up' = [up EXCEPT ![<<"server", c>>] = "done"]
        /\ down' = [down EXCEPT ![<<"client", c>>] = "gone"]
        /\ broken' = broken \cup {c}
    BY <1>7 DEF DialFails, Breaks
  <2>2. down[<<"client", c>>] = "wait"
    BY <1>1, <2>1 DEF StatusInv
  <2>3. /\ \A p \in Pipes : up[p] = "done" => up'[p] = "done"
        /\ \A p \in Pipes : up'[p] # up[p] => p[2] \in broken'
        /\ \A p \in Pipes : (down'[p] = "done") = (down[p] = "done")
    BY <1>1, <2>1, <2>2 DEF TypeInv, TaskTypes
  <2>4. QED
    BY <1>3, <2>1, <2>3, StreamBreaks
<1>8. ASSUME NEW q \in Pipes, UplinkData(q) PROVE Goal
  BY <1>1, <1>3, <1>8, StreamSends
<1>9. ASSUME NEW q \in Pipes, UplinkEnd(q) PROVE Goal
  <2>1. UNCHANGED <<sent, got, broken, down>> /\ up' = [up EXCEPT ![q] = "done"]
    BY <1>9 DEF UplinkEnd
  <2>2. QED
    BY <1>1, <1>3, <2>1, StreamCloses
<1>10. ASSUME NEW q \in Pipes, DownlinkWrite(q) PROVE Goal
  BY <1>1, <1>3, <1>10, StreamReceives DEF PipeInv
<1>11. ASSUME NEW q \in Pipes, DownlinkFails(q) PROVE Goal
  <2>1. /\ UNCHANGED <<sent, got, up>> /\ broken \subseteq broken'
        /\ down[q] = "recv" /\ down' = [down EXCEPT ![q] = "abandoned"]
    BY <1>11 DEF DownlinkFails, Breaks
  <2>2. \A p \in Pipes : (down'[p] = "done") = (down[p] = "done")
    BY <1>1, <2>1 DEF TypeInv, TaskTypes
  <2>3. QED
    BY <1>3, <2>1, <2>2, StreamBreaks
<1>12. ASSUME NEW q \in Pipes, DownlinkEnd(q) PROVE Goal
  BY <1>3, <1>12, StreamEnds DEF PipeInv
<1>13. ASSUME NEW e \in Ends, ReaderOpen(e) PROVE Goal
  <2> DEFINE c == Conn(Arriving(e))
  <2>1. /\ wire[Other(e)] # <<>> /\ Arriving(e).type = "OPEN" /\ UNCHANGED <<sent, got, broken>>
    BY <1>13 DEF ReaderOpen, Incoming, Arriving
  <2>2. /\ e = "server" /\ Other(e) = "client" /\ c \in Conns
        /\ Arriving(e) = wire["client"][1] /\ 1 \in 1..Len(wire["client"])
    BY <2>1, ArrivingFacts
  <2>3. /\ up' = [up EXCEPT ![<<"server", c>>] = "dial"]
        /\ down' = [down EXCEPT ![<<"client", c>>] = "wait"]
    BY <1>13, <2>2 DEF ReaderOpen, Conn
  <2>4. up[<<"server", c>>] = "off"
    BY <2>1, <2>2 DEF EndsInv, OpenInv
  <2> HIDE DEF c
  <2>5. down[<<"client", c>>] = "off"
    BY <1>1, <2>2, <2>4 DEF StatusInv
  <2>6. QED
    BY <1>1, <1>2, <2>1, <2>2, <2>3, <2>4, <2>5 DEF TypeInv, TaskTypes
<1>14. ASSUME NEW e \in Ends, ReaderData(e) \/ ReaderRefuses(e) \/ ReaderClose(e) PROVE Goal
  <2>1. UNCHANGED <<sent, got, broken, up, down>>
    BY <1>14 DEF ReaderData, ReaderRefuses, ReaderClose
  <2>2. QED
    BY <1>2, <2>1
<1>15. ASSUME (\E e \in Ends : ReaderStalled(e) \/ BadRecord(e)) \/ Dies PROVE Goal
  <2>1. UNCHANGED <<sent, got, up, down>> /\ broken \subseteq broken'
    BY <1>15 DEF ReaderStalled, BadRecord, Dies, Breaks
  <2>2. QED
    BY <1>3, <2>1, StreamBreaks
<1>16. ASSUME UNCHANGED vars PROVE Goal
  BY <1>2, <1>16 DEF vars
<1>17. Goal
  BY <1>4, <1>5, <1>6, <1>7, <1>8, <1>9, <1>10, <1>11, <1>12, <1>13, <1>14, <1>15, <1>16
     DEF Next, Opener, Downlink, Reader
<1>18. QED
  BY <1>17 DEF Goal

(* Every direction of every stream is a pipe: whatever the tasks, the two  *)
(* readers and the faults do, chunks come out in order, none twice, none   *)
(* of another stream; none is missing and no FIN comes early while no      *)
(* fault has hit that connection.                                          *)
THEOREM MuxImplementsPipes == Spec => StreamsArePipes
<1>1. Spec => Stream!Init
  BY StreamInit DEF Spec
<1>2. Spec => [][Stream!Next]_(Stream!vars)
  BY EndsInvariant, PipeInvariant, StreamStep, PTL DEF Spec
<1>3. QED
  BY <1>1, <1>2, PTL DEF StreamsArePipes, Stream!Spec
=============================================================================
