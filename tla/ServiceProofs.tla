--------------------------- MODULE ServiceProofs ----------------------------
(***************************************************************************)
(* Proofs about Service, for every finite set of connections.              *)
(***************************************************************************)
EXTENDS Service, FiniteSetTheorems, SequenceTheorems, TLAPS

-----------------------------------------------------------------------------
(* The tunnels handle_conn has done with, and where those of them that are *)
(* alive are: in the list, then among the doomed, then nowhere.            *)
Listed == {t \in Dials : far[t] = "listed"}

ListInv ==
  /\ serving = "accepting" => Listed \cap up \subseteq live
  /\ serving = "killing" => settled \cap up \subseteq doomed
  /\ serving = "stopped" => settled \cap up = {}
  /\ settled \subseteq Listed /\ up \subseteq Dials
  /\ far \in [Dials -> {"none", "handshake", "spawned", "listed", "closed"}]

LEMMA ListNext == ListInv /\ [Next]_vars => ListInv'
<1> SUFFICES ASSUME ListInv, [Next]_vars PROVE ListInv'
  OBVIOUS
<1> USE DEF ListInv, Listed, clientVars, serverVars
<1>1. ASSUME NEW t \in Dials,
             ServerAccepts(t) \/ HandshakeFails(t) \/ NearDies(t)
      PROVE  ListInv'
  BY <1>1 DEF ServerAccepts, HandshakeFails, NearDies
<1>2. ASSUME NEW t \in Dials, HandshakeOk(t) PROVE ListInv'
  BY <1>2 DEF HandshakeOk
<1>3. ASSUME NEW t \in Dials, ListTunnel(t) PROVE ListInv'
  BY <1>3 DEF ListTunnel, Retained
<1>4. ASSUME NEW t \in Dials, FarDies(t) \/ Kill(t) PROVE ListInv'
  BY <1>4 DEF FarDies, Kill, Dies
<1>5. ASSUME NEW c \in Conns,
             \/ Accept(c) \/ TakeCached(c) \/ DialBegins(c) \/ DialOk(c)
             \/ DialFails(c) \/ OpenOk(c) \/ OpenFails(c)
      PROVE  ListInv'
  BY <1>5 DEF Accept, TakeCached, DialBegins, Dialing, DialOk, DialFails, OpenOk, OpenFails
<1>6. CASE Shutdown
  BY <1>6 DEF Shutdown
<1>7. CASE AbortAll
  BY <1>7 DEF AbortAll
<1>8. CASE UNCHANGED vars
  BY <1>8 DEF vars
<1>9. QED
  BY <1>1, <1>2, <1>3, <1>4, <1>5, <1>6, <1>7, <1>8 DEF Next

(* A tunnel that handle_conn had listed when the shutdown came is dead     *)
(* when serve returns: no clean-up of the list on the way loses one that   *)
(* is alive, and no later listing makes serve miss it.                     *)
THEOREM ServerKillsListed == Spec => []StopKillsListed
<1>1. Init => ListInv
  BY DEF Init, ListInv, Listed
<1>2. ListInv => StopKillsListed
  BY DEF ListInv, StopKillsListed
<1>3. QED
  BY <1>1, <1>2, ListNext, PTL DEF Spec

-----------------------------------------------------------------------------
(* The client's invariant.  Types first, with the length of failures that  *)
(* each place of accept_connection allows.                                 *)
ClientTypes ==
  /\ conn \in [Conns -> {"idle", "locking", "dialing", "opening", "pumping", "failed"}]
  /\ failures \in [Conns -> Seq(Dials)]
  /\ using \in [Conns -> {0} \cup Dials]
  /\ mutex \in Seq(Conns)
  /\ current \in {0} \cup Dials /\ dials \in {0} \cup Dials
  /\ near \in [Dials -> {"none", "dialing", "up", "dead"}]
  /\ \A c \in Conns :
       /\ Len(failures[c]) \in 0..Attempts
       /\ conn[c] \in {"idle", "pumping"} => Len(failures[c]) = 0
       /\ conn[c] = "failed" => Len(failures[c]) = Attempts
       /\ conn[c] \in {"locking", "dialing", "opening"} => Len(failures[c]) < Attempts

(* A connection is at the mutex once, and only its holder dials.           *)
MutexInv ==
  /\ \A i, j \in 1..Len(mutex) : mutex[i] = mutex[j] => i = j
  /\ \A i \in 1..Len(mutex) : conn[mutex[i]] \in {"locking", "dialing"}
  /\ \A c \in Conns : conn[c] = "dialing" => mutex # <<>> /\ Head(mutex) = c

(* Only the cached tunnel is ever up, and none is while someone dials.     *)
DialInv ==
  /\ \A t \in Dials : near[t] = "none" <=> t > dials
  /\ \A t \in Dials : near[t] = "up" => t = current
  /\ \A c \in Conns : conn[c] = "dialing" =>
       /\ using[c] = dials /\ dials \in Dials /\ near[dials] = "dialing"
       /\ \A t \in Dials : near[t] # "up"
  /\ \A c \in Conns : conn[c] = "opening" =>
       using[c] \in Dials /\ near[using[c]] \in {"up", "dead"}

(* What failed a connection is dead, and it never works with it again.     *)
FreshInv ==
  \A c \in Conns :
    /\ \A i \in 1..Len(failures[c]) : near[failures[c][i]] = "dead"
    /\ conn[c] = "opening" => \A i \in 1..Len(failures[c]) : failures[c][i] # using[c]
    /\ conn[c] = "failed" => failures[c][1] # failures[c][2]

(* The attempts used up, and the dials they pay for.                       *)
Used == [c \in Conns |->
  IF conn[c] \in {"pumping", "failed"} THEN Attempts
  ELSE IF conn[c] \in {"dialing", "opening"} THEN Len(failures[c]) + 1
  ELSE Len(failures[c])]

Spent == {a \in Conns \X (1..Attempts) : a[2] <= Used[a[1]]}

BudgetInv == dials <= Cardinality(Spent)

ClientInv == ClientTypes /\ MutexInv /\ DialInv /\ FreshInv /\ BudgetInv

-----------------------------------------------------------------------------
(* Lemmas about the counting of dials.                                     *)
LEMMA ConstantTypes ==
  /\ Attempts = 2
  /\ Cardinality(Conns) \in Nat
  /\ Dials = 1..(2 * Cardinality(Conns))
  /\ IsFiniteSet(Conns \X (1..Attempts))
  /\ Cardinality(Conns \X (1..Attempts)) = 2 * Cardinality(Conns)
<1>1. Cardinality(Conns) \in Nat
  BY ServiceAssumption, FS_CardinalityType
<1>2. IsFiniteSet(1..2) /\ Cardinality(1..2) = 2
  <2>1. 1 \in Int /\ 2 \in Int
    OBVIOUS
  <2>2. IsFiniteSet(1..2) /\ Cardinality(1..2) = IF 1 > 2 THEN 0 ELSE 2 - 1 + 1
    BY <2>1, FS_Interval, Zenon
  <2>3. QED
    BY <2>2
<1>3. /\ IsFiniteSet(Conns \X (1..2))
      /\ Cardinality(Conns \X (1..2)) = Cardinality(Conns) * Cardinality(1..2)
  BY ServiceAssumption, <1>2, FS_Product
<1>4. QED
  BY <1>1, <1>2, <1>3 DEF Attempts, Dials

LEMMA SpentFinite ==
  /\ IsFiniteSet(Spent) /\ Cardinality(Spent) \in Nat
  /\ Cardinality(Spent) <= 2 * Cardinality(Conns)
<1>1. Spent \in SUBSET (Conns \X (1..Attempts))
  BY DEF Spent
<1>2. QED
  BY <1>1, ConstantTypes, FS_Subset, FS_CardinalityType

(* Attempts are never given back.                                          *)
LEMMA BudgetKept ==
  ASSUME BudgetInv, dials \in Nat, Spent \subseteq Spent', dials' = dials
  PROVE  BudgetInv'
<1>1. IsFiniteSet(Spent') /\ Cardinality(Spent') \in Nat
  <2>1. Spent' \in SUBSET (Conns \X (1..Attempts))
    BY DEF Spent
  <2>2. QED
    BY <2>1, ConstantTypes, FS_Subset, FS_CardinalityType
<1>2. Cardinality(Spent) <= Cardinality(Spent')
  BY <1>1, FS_Subset
<1>3. QED
  BY <1>1, <1>2, SpentFinite DEF BudgetInv

(* While an attempt is left there is a number for its dial.                *)
LEMMA BudgetRoom ==
  ASSUME BudgetInv, dials \in Nat, NEW a \in Conns \X (1..Attempts), a \notin Spent
  PROVE  dials + 1 \in Dials
<1>1. Cardinality(Spent \cup {a}) = Cardinality(Spent) + 1
  BY SpentFinite, FS_AddElement
<1>2. Spent \cup {a} \in SUBSET (Conns \X (1..Attempts))
  BY DEF Spent
<1>3. Cardinality(Spent \cup {a}) <= 2 * Cardinality(Conns)
  BY <1>2, ConstantTypes, FS_Subset
<1>4. QED
  BY <1>1, <1>3, SpentFinite, ConstantTypes DEF BudgetInv

(* A dial uses up an attempt.                                              *)
LEMMA BudgetSpent ==
  ASSUME BudgetInv, dials \in Nat, NEW a \in Conns \X (1..Attempts),
         a \notin Spent, Spent' = Spent \cup {a}, dials' = dials + 1
  PROVE  BudgetInv'
<1>1. Cardinality(Spent') = Cardinality(Spent) + 1
  BY SpentFinite, FS_AddElement
<1>2. QED
  BY <1>1, SpentFinite DEF BudgetInv

-----------------------------------------------------------------------------
(* Lemmas about the queue at the mutex.                                    *)
Distinct(q) == \A i, j \in 1..Len(q) : q[i] = q[j] => i = j

Without(q, c) == \A i \in 1..Len(q) : q[i] # c

LEMMA QueueAppend ==
  ASSUME NEW q \in Seq(Conns), Distinct(q), NEW c \in Conns, Without(q, c)
  PROVE  /\ Append(q, c) \in Seq(Conns) /\ Distinct(Append(q, c))
         /\ Append(q, c) # <<>>
         /\ Head(Append(q, c)) = IF q = <<>> THEN c ELSE Head(q)
         /\ \A i \in 1..Len(Append(q, c)) :
              Append(q, c)[i] = c \/ \E j \in 1..Len(q) : Append(q, c)[i] = q[j]
<1>1. /\ Append(q, c) \in Seq(Conns) /\ Len(Append(q, c)) = Len(q) + 1
      /\ \A i \in 1..Len(q) : Append(q, c)[i] = q[i]
      /\ Append(q, c)[Len(q) + 1] = c /\ Append(q, c) # <<>>
  BY AppendProperties
<1>2. Head(Append(q, c)) = IF q = <<>> THEN c ELSE Head(q)
  BY HeadTailAppend
<1>3. QED
  BY <1>1, <1>2 DEF Distinct, Without

(* What is left when the holder goes, of a queue or of one it was not in.  *)
LEMMA QueueReleased ==
  ASSUME mutex \in Seq(Conns), Distinct(mutex), NEW c \in Conns,
         \/ mutex # <<>> /\ Head(mutex) = c
         \/ Without(mutex, c)
  PROVE  /\ Released(c) \in Seq(Conns) /\ Distinct(Released(c)) /\ Without(Released(c), c)
         /\ \A i \in 1..Len(Released(c)) : \E j \in 1..Len(mutex) : Released(c)[i] = mutex[j]
<1>1. CASE mutex # <<>> /\ Head(mutex) = c
  <2>1. /\ Tail(mutex) \in Seq(Conns) /\ Len(Tail(mutex)) = Len(mutex) - 1
        /\ \A i \in 1..Len(Tail(mutex)) : Tail(mutex)[i] = mutex[i + 1]
        /\ mutex[1] = c /\ Len(mutex) \in Nat \ {0}
    BY <1>1, HeadTailProperties, EmptySeq
  <2>2. QED
    BY <1>1, <2>1 DEF Released, Distinct, Without
<1>2. CASE ~(mutex # <<>> /\ Head(mutex) = c)
  BY <1>2 DEF Released
<1>3. QED
  BY <1>1, <1>2

(* A connection that neither waits for nor holds the mutex is not in it,   *)
(* and behind one that dials all wait.                                     *)
LEMMA QueuePlaces ==
  ASSUME ClientTypes, MutexInv, NEW c \in Conns
  PROVE  /\ Distinct(mutex)
         /\ conn[c] \notin {"locking", "dialing"} => Without(mutex, c)
         /\ \A d \in Conns : conn[c] = "dialing" /\ conn[d] = "dialing" => c = d
         /\ mutex # <<>> /\ Head(mutex) = c =>
              \A d \in Conns : conn[d] = "dialing" => d = c
<1>1. mutex # <<>> => Head(mutex) = mutex[1] /\ 1 \in 1..Len(mutex)
  BY EmptySeq DEF ClientTypes
<1>2. QED
  BY <1>1 DEF ClientTypes, MutexInv, Distinct, Without

-----------------------------------------------------------------------------
LEMMA ClientInit == Init => ClientInv
<1> SUFFICES ASSUME Init PROVE ClientInv
  OBVIOUS
<1>1. ClientTypes
  BY EmptySeq DEF Init, ClientTypes, Attempts
<1>2. MutexInv /\ FreshInv
  BY EmptySeq DEF Init, MutexInv, FreshInv
<1>3. DialInv
  BY ConstantTypes DEF Init, DialInv
<1>4. BudgetInv
  BY SpentFinite DEF Init, BudgetInv
<1>5. QED
  BY <1>1, <1>2, <1>3, <1>4 DEF ClientInv

LEMMA UsedType == ClientTypes => Used \in [Conns -> 0..2]
<1> SUFFICES ASSUME ClientTypes PROVE Used \in [Conns -> 0..2]
  OBVIOUS
<1>1. \A d \in Conns :
        /\ Len(failures[d]) \in 0..2
        /\ conn[d] \in {"dialing", "opening"} => Len(failures[d]) < 2
  BY DEF ClientTypes, Attempts
<1>2. \A d \in Conns : Used[d] \in 0..2
  BY <1>1 DEF Used, Attempts
<1>3. QED
  BY <1>2 DEF Used

(* The attempts of one connection change, the others' do not.              *)
LEMMA UsedOf ==
  ASSUME ClientTypes, ClientTypes', NEW c \in Conns,
         \A d \in Conns \ {c} : conn'[d] = conn[d] /\ failures'[d] = failures[d]
  PROVE  /\ Used \in [Conns -> 0..2] /\ Used' \in [Conns -> 0..2]
         /\ \A d \in Conns \ {c} : Used'[d] = Used[d]
         /\ Used'[c] = Used[c] => Spent' = Spent
         /\ Used[c] <= Used'[c] => Spent \subseteq Spent'
         /\ Used'[c] = Used[c] + 1 =>
              /\ Spent' = Spent \cup {<<c, Used'[c]>>} /\ <<c, Used'[c]>> \notin Spent
              /\ <<c, Used'[c]>> \in Conns \X (1..Attempts)
<1>1. Used \in [Conns -> 0..2]
  BY UsedType
<1>2. Used' \in [Conns -> 0..2]
  <2>1. \A d \in Conns :
          /\ Len(failures'[d]) \in 0..2
          /\ conn'[d] \in {"dialing", "opening"} => Len(failures'[d]) < 2
    BY DEF ClientTypes, Attempts
  <2>2. \A d \in Conns : Used'[d] \in 0..2
    BY <2>1 DEF Used, Attempts
  <2>3. QED
    BY <2>2 DEF Used
<1>3. \A d \in Conns \ {c} : Used'[d] = Used[d]
  BY DEF Used
<1>4. Spent = {a \in Conns \X (1..2) : a[2] <= Used[a[1]]}
  BY DEF Spent, Attempts
<1>5. Spent' = {a \in Conns \X (1..2) : a[2] <= Used'[a[1]]}
  BY DEF Spent, Attempts
<1>6. ASSUME Used[c] <= Used'[c] PROVE Spent \subseteq Spent'
  BY <1>1, <1>2, <1>3, <1>4, <1>5, <1>6
<1>7. ASSUME Used'[c] = Used[c] PROVE Spent' = Spent
  BY <1>1, <1>2, <1>3, <1>4, <1>5, <1>7
<1>8. ASSUME Used'[c] = Used[c] + 1
      PROVE  /\ Spent' = Spent \cup {<<c, Used'[c]>>} /\ <<c, Used'[c]>> \notin Spent
             /\ <<c, Used'[c]>> \in Conns \X (1..Attempts)
  <2>1. Used'[c] \in 1..2
    BY <1>1, <1>2, <1>8
  <2>2. \A a \in Conns \X (1..2) :
          a[2] <= Used'[a[1]] <=> a[2] <= Used[a[1]] \/ a = <<c, Used'[c]>>
    BY <1>1, <1>2, <1>3, <1>8
  <2>3. QED
    BY <1>1, <1>4, <1>5, <1>8, <2>1, <2>2 DEF Attempts
<1>9. QED
  BY <1>1, <1>2, <1>3, <1>6, <1>7, <1>8

-----------------------------------------------------------------------------
(* Each step of the client preserves the invariant.                        *)
LEMMA AcceptInv ==
  ASSUME ClientInv, NEW c \in Conns, Accept(c)
  PROVE  ClientInv'
<1> USE DEF ClientInv
<1>1. Distinct(mutex) /\ Without(mutex, c)
  BY QueuePlaces DEF Accept
<1>2. /\ mutex' \in Seq(Conns) /\ Distinct(mutex') /\ mutex' # <<>>
      /\ Head(mutex') = IF mutex = <<>> THEN c ELSE Head(mutex)
      /\ \A i \in 1..Len(mutex') : mutex'[i] = c \/ \E j \in 1..Len(mutex) : mutex'[i] = mutex[j]
  BY <1>1, QueueAppend DEF Accept, ClientTypes
<1>3. ClientTypes'
  BY <1>2 DEF Accept, ClientTypes, Attempts
<1>4. MutexInv'
  BY <1>1, <1>2, SMTT(30) DEF Accept, ClientTypes, MutexInv, Distinct
<1>5. DialInv'
  BY DEF Accept, ClientTypes, DialInv
<1>6. FreshInv'
  BY DEF Accept, ClientTypes, FreshInv
<1>7. BudgetInv'
  <2>1. Used'[c] = Used[c] /\ dials' = dials /\ dials \in Nat
    BY ConstantTypes DEF Accept, ClientTypes, Used
  <2>2. \A d \in Conns \ {c} : conn'[d] = conn[d] /\ failures'[d] = failures[d]
    BY DEF Accept, ClientTypes
  <2>3. Spent' = Spent
    BY <1>3, <2>1, <2>2, UsedOf
  <2>4. QED
    BY <2>1, <2>3, BudgetKept
<1>8. QED
  BY <1>3, <1>4, <1>5, <1>6, <1>7

LEMMA TakeCachedInv ==
  ASSUME ClientInv, NEW c \in Conns, TakeCached(c)
  PROVE  ClientInv'
<1> USE DEF ClientInv
<1>1. /\ Distinct(mutex) /\ conn[c] = "locking"
      /\ \A d \in Conns : conn[d] # "dialing"
  BY QueuePlaces DEF TakeCached, Holds
<1>2. /\ mutex' \in Seq(Conns) /\ Distinct(mutex') /\ Without(mutex', c)
      /\ \A i \in 1..Len(mutex') : \E j \in 1..Len(mutex) : mutex'[i] = mutex[j]
  BY <1>1, QueueReleased DEF TakeCached, Holds, ClientTypes
<1>3. ClientTypes'
  BY <1>1, <1>2 DEF TakeCached, ClientTypes, Attempts
<1>4. MutexInv'
  <2>1. \A d \in Conns : d # c => conn'[d] = conn[d]
    BY DEF TakeCached, ClientTypes
  <2>2. conn'[c] = "opening"
    BY DEF TakeCached, ClientTypes
  <2>3. \A i \in 1..Len(mutex') : mutex'[i] \in Conns /\ mutex'[i] # c
    BY <1>2 DEF Without
  <2>4. \A i \in 1..Len(mutex') : conn'[mutex'[i]] \in {"locking", "dialing"}
    BY <1>2, <2>1, <2>3 DEF MutexInv
  <2>5. QED
    BY <1>1, <1>2, <2>1, <2>2, <2>4 DEF MutexInv, Distinct
<1>5. DialInv'
  BY <1>1 DEF TakeCached, Cached, ClientTypes, DialInv
<1>6. FreshInv'
  BY DEF TakeCached, Cached, ClientTypes, FreshInv
<1>7. BudgetInv'
  <2>1. Used[c] <= Used'[c] /\ dials' = dials /\ dials \in Nat
    BY <1>1, ConstantTypes DEF TakeCached, ClientTypes, Used
  <2>2. \A d \in Conns \ {c} : conn'[d] = conn[d] /\ failures'[d] = failures[d]
    BY DEF TakeCached, ClientTypes
  <2>3. Spent \subseteq Spent'
    BY <1>3, <2>1, <2>2, UsedOf
  <2>4. QED
    BY <2>1, <2>3, BudgetKept
<1>8. QED
  BY <1>3, <1>4, <1>5, <1>6, <1>7

LEMMA DialBeginsInv ==
  ASSUME ClientInv, NEW c \in Conns, DialBegins(c)
  PROVE  ClientInv'
<1> USE DEF ClientInv
<1>1. /\ conn[c] = "locking" /\ mutex # <<>> /\ Head(mutex) = c
      /\ \A d \in Conns : conn[d] # "dialing"
  BY QueuePlaces DEF DialBegins, Dialing, Holds
<1>2. \A d \in Conns \ {c} : conn'[d] = conn[d] /\ failures'[d] = failures[d]
  BY DEF DialBegins, Dialing, ClientTypes
<1>3. dials \in Nat /\ dials' = dials + 1
  BY ConstantTypes DEF DialBegins, Dialing, ClientTypes
<1>4. dials + 1 \in Dials
  <2>1. Len(failures[c]) \in 0..2 /\ Len(failures[c]) < 2
    BY <1>1 DEF ClientTypes, Attempts
  <2>2. Used[c] = Len(failures[c])
    BY <1>1 DEF Used
  <2>3. \A d \in Conns : Used[d] \in 0..2
    BY UsedType
  <2>4. <<c, Used[c] + 1>> \in Conns \X (1..2) /\ <<c, Used[c] + 1>> \notin Spent
    BY <2>1, <2>2, <2>3 DEF Spent
  <2>5. QED
    BY <1>3, <2>4, BudgetRoom DEF Attempts
<1>5. ClientTypes'
  BY <1>1, <1>3, <1>4 DEF DialBegins, Dialing, ClientTypes, Attempts
<1>6. MutexInv'
  BY <1>1 DEF DialBegins, Dialing, ClientTypes, MutexInv
<1>7. DialInv'
  <2>1. \A t \in Dials : near[t] # "up"
    BY ConstantTypes DEF DialBegins, Dialing, Cached, DialInv
  <2>2. QED
    BY <1>1, <1>3, <1>4, <2>1, ConstantTypes DEF DialBegins, Dialing, ClientTypes, DialInv
<1>8. FreshInv'
  BY <1>1, <1>3, <1>4, ConstantTypes DEF DialBegins, Dialing, ClientTypes, FreshInv, DialInv
<1>9. BudgetInv'
  <2>1. Used'[c] = Used[c] + 1
    BY <1>1 DEF DialBegins, Dialing, ClientTypes, Used
  <2>2. QED
    BY <1>2, <1>3, <1>5, <2>1, UsedOf, BudgetSpent
<1>10. QED
  BY <1>5, <1>6, <1>7, <1>8, <1>9

LEMMA DialOkInv ==
  ASSUME ClientInv, NEW c \in Conns, DialOk(c)
  PROVE  ClientInv'
<1> USE DEF ClientInv
<1>1. /\ Distinct(mutex) /\ conn[c] = "dialing" /\ mutex # <<>> /\ Head(mutex) = c
      /\ \A d \in Conns : conn[d] = "dialing" => d = c
  BY QueuePlaces DEF DialOk, MutexInv
<1>2. /\ mutex' \in Seq(Conns) /\ Distinct(mutex') /\ Without(mutex', c)
      /\ \A i \in 1..Len(mutex') : \E j \in 1..Len(mutex) : mutex'[i] = mutex[j]
  BY <1>1, QueueReleased DEF DialOk, ClientTypes
<1>3. /\ using[c] = dials /\ dials \in Dials /\ near[dials] = "dialing"
      /\ \A t \in Dials : near[t] # "up"
  BY <1>1 DEF DialInv
<1>4. ClientTypes'
  BY <1>1, <1>2, <1>3 DEF DialOk, ClientTypes, Attempts
<1>5. \A d \in Conns : d # c => conn'[d] = conn[d] /\ failures'[d] = failures[d]
  BY DEF DialOk, ClientTypes
<1>6. MutexInv'
  <2>1. conn'[c] = "opening"
    BY DEF DialOk, ClientTypes
  <2>2. \A i \in 1..Len(mutex') : mutex'[i] \in Conns /\ mutex'[i] # c
    BY <1>2 DEF Without
  <2>3. \A i \in 1..Len(mutex') : conn'[mutex'[i]] \in {"locking", "dialing"}
    BY <1>2, <1>5, <2>2 DEF MutexInv
  <2>4. QED
    BY <1>1, <1>2, <1>5, <2>1, <2>3 DEF MutexInv, Distinct
<1>7. DialInv'
  BY <1>1, <1>3, ConstantTypes DEF DialOk, ClientTypes, DialInv
<1>8. FreshInv'
  BY <1>1, <1>3 DEF DialOk, ClientTypes, FreshInv
<1>9. BudgetInv'
  <2>1. Used'[c] = Used[c] /\ dials' = dials /\ dials \in Nat
    BY <1>1, ConstantTypes DEF DialOk, ClientTypes, Used
  <2>2. Spent' = Spent
    BY <1>4, <1>5, <2>1, UsedOf
  <2>3. QED
    BY <2>1, <2>2, BudgetKept
<1>10. QED
  BY <1>4, <1>6, <1>7, <1>8, <1>9

(* The attempt failed with a dial or a tunnel that is now dead and had not *)
(* failed this connection before.                                          *)
LEMMA AttemptFailsInv ==
  ASSUME ClientInv, NEW c \in Conns, conn[c] \in {"dialing", "opening"},
         AttemptFails(c), UNCHANGED <<using, current, dials>>,
         using[c] \in Dials, near' = [near EXCEPT ![using[c]] = "dead"],
         near[using[c]] # "none",
         \A i \in 1..Len(failures[c]) : failures[c][i] # using[c]
  PROVE  ClientInv'
<1> USE DEF ClientInv
<1>1. /\ Distinct(mutex)
      /\ \/ mutex # <<>> /\ Head(mutex) = c
         \/ Without(mutex, c)
  BY QueuePlaces DEF MutexInv
<1>2. /\ Released(c) \in Seq(Conns) /\ Distinct(Released(c)) /\ Without(Released(c), c)
      /\ \A i \in 1..Len(Released(c)) : \E j \in 1..Len(mutex) : Released(c)[i] = mutex[j]
  BY <1>1, QueueReleased DEF ClientTypes
<1>3. /\ failures[c] \in Seq(Dials) /\ Len(failures[c]) \in Nat
      /\ Len(failures[c]) = 0 \/ Len(failures[c]) = 1
  <2> DEFINE n == Len(failures[c])
  <2>1. failures[c] \in Seq(Dials) /\ n \in 0..2 /\ n < 2
    BY DEF ClientTypes, Attempts
  <2> HIDE DEF n
  <2>2. n \in Nat /\ (n = 0 \/ n = 1)
    BY <2>1
  <2>3. QED
    BY <2>1, <2>2 DEF n
<1>4. /\ failures'[c] = Append(failures[c], using[c])
      /\ failures'[c] \in Seq(Dials) /\ Len(failures'[c]) = Len(failures[c]) + 1
      /\ \A i \in 1..Len(failures[c]) : failures'[c][i] = failures[c][i]
      /\ failures'[c][Len(failures[c]) + 1] = using[c]
  <2>1. failures'[c] = Append(failures[c], using[c])
    BY DEF AttemptFails, ClientTypes
  <2>2. QED
    BY <1>3, <2>1, AppendProperties
<1>5. \A d \in Conns : d # c => conn'[d] = conn[d] /\ failures'[d] = failures[d]
  BY DEF AttemptFails, ClientTypes
<1>6. /\ Len(failures[c]) = 0 => conn'[c] = "locking" /\ mutex' = Append(Released(c), c)
      /\ Len(failures[c]) = 1 => conn'[c] = "failed" /\ mutex' = Released(c)
  BY <1>3 DEF AttemptFails, ClientTypes, Attempts
<1>7. /\ mutex' \in Seq(Conns) /\ Distinct(mutex')
      /\ \A i \in 1..Len(mutex') : mutex'[i] = c => Len(failures[c]) = 0
      /\ \A i \in 1..Len(mutex') :
           mutex'[i] = c \/ \E j \in 1..Len(mutex) : mutex'[i] = mutex[j]
  <2>1. CASE Len(failures[c]) = 0
    <3>1. /\ mutex' \in Seq(Conns) /\ Distinct(mutex')
          /\ \A i \in 1..Len(mutex') :
               mutex'[i] = c \/ \E j \in 1..Len(Released(c)) : mutex'[i] = Released(c)[j]
      <4> DEFINE q == Released(c)
      <4>1. q \in Seq(Conns) /\ Distinct(q) /\ Without(q, c) /\ mutex' = Append(q, c)
        BY <1>2, <1>6, <2>1
      <4> HIDE DEF q
      <4>2. /\ mutex' \in Seq(Conns) /\ Distinct(mutex')
            /\ \A i \in 1..Len(mutex') :
                 mutex'[i] = c \/ \E j \in 1..Len(q) : mutex'[i] = q[j]
        BY <4>1, QueueAppend
      <4>3. QED
        BY <4>2 DEF q
    <3>2. QED
      BY <1>2, <2>1, <3>1
  <2>2. CASE Len(failures[c]) = 1
    BY <1>2, <1>6, <2>2 DEF Without
  <2>3. QED
    BY <1>3, <2>1, <2>2
<1>8. ClientTypes'
  <2>1. /\ failures' \in [Conns -> Seq(Dials)]
        /\ conn' \in [Conns -> {"idle", "locking", "dialing", "opening", "pumping", "failed"}]
    BY <1>3, <1>4, <1>5, <1>6, ZenonT(60) DEF AttemptFails, ClientTypes
  <2>2. near' \in [Dials -> {"none", "dialing", "up", "dead"}]
    BY DEF ClientTypes
  <2>3. \A d \in Conns :
          /\ Len(failures'[d]) \in 0..2
          /\ conn'[d] \in {"idle", "pumping"} => Len(failures'[d]) = 0
          /\ conn'[d] = "failed" => Len(failures'[d]) = 2
          /\ conn'[d] \in {"locking", "dialing", "opening"} => Len(failures'[d]) < 2
    <3> SUFFICES ASSUME NEW d \in Conns
                 PROVE  /\ Len(failures'[d]) \in 0..2
                        /\ conn'[d] \in {"idle", "pumping"} => Len(failures'[d]) = 0
                        /\ conn'[d] = "failed" => Len(failures'[d]) = 2
                        /\ conn'[d] \in {"locking", "dialing", "opening"} => Len(failures'[d]) < 2
      OBVIOUS
    <3>1. CASE d = c
      <4> DEFINE n == Len(failures[c])
                 k == Len(failures'[c])
      <4>1. /\ n = 0 \/ n = 1
            /\ k = n + 1
            /\ n = 0 => conn'[c] = "locking"
            /\ n = 1 => conn'[c] = "failed"
        BY <1>3, <1>4, <1>6
      <4> HIDE DEF n, k
      <4>2. /\ k \in 0..2
            /\ conn'[c] \in {"locking", "failed"}
            /\ conn'[c] = "failed" => k = 2
            /\ conn'[c] = "locking" => k < 2
        BY <4>1
      <4>3. QED
        BY <3>1, <4>2 DEF k
    <3>2. CASE d # c
      BY <1>5, <3>2 DEF ClientTypes, Attempts
    <3>3. QED
      BY <3>1, <3>2
  <2>4. QED
    BY <1>7, <2>1, <2>2, <2>3 DEF ClientTypes, Attempts
<1>9. MutexInv'
  <2>1. \A i \in 1..Len(mutex') : conn'[mutex'[i]] \in {"locking", "dialing"}
    <3> SUFFICES ASSUME NEW i \in 1..Len(mutex')
                 PROVE  conn'[mutex'[i]] \in {"locking", "dialing"}
      OBVIOUS
    <3>1. CASE mutex'[i] = c
      BY <1>6, <1>7, <3>1
    <3>2. CASE mutex'[i] # c
      <4>1. PICK j \in 1..Len(mutex) : mutex'[i] = mutex[j]
        BY <1>7, <3>2
      <4>2. mutex[j] \in Conns /\ conn[mutex[j]] \in {"locking", "dialing"}
        BY DEF MutexInv, ClientTypes
      <4>3. QED
        BY <1>5, <3>2, <4>1, <4>2
    <3>3. QED
      BY <3>1, <3>2
  <2>2. ASSUME NEW d \in Conns, conn'[d] = "dialing"
        PROVE  mutex' # <<>> /\ Head(mutex') = d
    <3>1. d # c /\ conn[d] = "dialing"
      BY <1>3, <1>5, <1>6, <2>2
    <3>2. mutex # <<>> /\ Head(mutex) = d
      BY <3>1 DEF MutexInv
    <3>3. conn[c] = "opening" /\ Released(c) = mutex
      BY <3>1, <3>2 DEF Released, MutexInv
    <3>4. CASE Len(failures[c]) = 0
      <4>1. mutex \in Seq(Conns) /\ mutex' = Append(mutex, c)
        BY <1>6, <3>3, <3>4 DEF ClientTypes
      <4>2. Head(Append(mutex, c)) = Head(mutex) /\ Append(mutex, c) # <<>>
        BY <3>2, <4>1, HeadTailAppend, AppendProperties
      <4>3. QED
        BY <3>2, <4>1, <4>2
    <3>5. QED
      BY <1>3, <1>6, <3>2, <3>3, <3>4
  <2>3. QED
    BY <1>7, <2>1, <2>2 DEF MutexInv, Distinct
<1>10. DialInv'
  <2>1. \A t \in Dials :
          /\ near'[t] = "none" <=> near[t] = "none"
          /\ near'[t] = "up" => near[t] = "up"
          /\ near[t] \in {"up", "dead"} => near'[t] \in {"up", "dead"}
          /\ t # using[c] => near'[t] = near[t]
    BY DEF ClientTypes
  <2>2. \A d \in Conns : conn'[d] = "dialing" =>
          d # c /\ conn[d] = "dialing" /\ conn[c] = "opening"
    BY <1>3, <1>5, <1>6 DEF MutexInv
  <2>3. \A d \in Conns : conn'[d] = "opening" => d # c /\ conn[d] = "opening"
    BY <1>3, <1>5, <1>6
  <2>4. \A d \in Conns : conn'[d] = "dialing" => near'[dials] = "dialing"
    BY <2>1, <2>2 DEF DialInv
  <2>5. QED
    BY <2>1, <2>2, <2>3, <2>4 DEF DialInv
<1>11. FreshInv'
  <2>1. \A t \in Dials : near[t] = "dead" => near'[t] = "dead"
    BY DEF ClientTypes
  <2>2. near'[using[c]] = "dead"
    BY DEF ClientTypes
  <2>3. \A i \in 1..Len(failures'[c]) : near'[failures'[c][i]] = "dead"
    <3> SUFFICES ASSUME NEW i \in 1..Len(failures'[c])
                 PROVE  near'[failures'[c][i]] = "dead"
      OBVIOUS
    <3>1. CASE i \in 1..Len(failures[c])
      <4>1. failures[c][i] \in Dials /\ near[failures[c][i]] = "dead"
        BY <1>3, <3>1 DEF FreshInv
      <4>2. QED
        BY <1>4, <2>1, <3>1, <4>1
    <3>2. CASE i = Len(failures[c]) + 1
      BY <1>4, <2>2, <3>2
    <3>3. QED
      BY <1>3, <1>4, <3>1, <3>2
  <2>4. conn'[c] = "failed" => failures'[c][1] # failures'[c][2]
    BY <1>3, <1>4, <1>6
  <2>5. conn'[c] # "opening"
    BY <1>3, <1>6
  <2>6. ASSUME NEW d \in Conns, d # c, NEW i \in 1..Len(failures[d])
        PROVE  near'[failures[d][i]] = "dead"
    <3>1. failures[d][i] \in Dials /\ near[failures[d][i]] = "dead"
      BY <2>6 DEF FreshInv, ClientTypes
    <3>2. QED
      BY <2>1, <3>1
  <2>7. QED
    BY <1>5, <2>3, <2>4, <2>5, <2>6 DEF FreshInv
<1>12. BudgetInv'
  <2>1. Used[c] <= Used'[c] /\ dials' = dials /\ dials \in Nat
    BY <1>3, <1>4, <1>6, ConstantTypes, SMTT(30) DEF ClientTypes, Used, Attempts
  <2>2. Spent \subseteq Spent'
    BY <1>5, <1>8, <2>1, UsedOf
  <2>3. QED
    BY <2>1, <2>2, BudgetKept
<1>13. QED
  BY <1>8, <1>9, <1>10, <1>11, <1>12

LEMMA DialFailsInv ==
  ASSUME ClientInv, NEW c \in Conns, DialFails(c)
  PROVE  ClientInv'
<1>1. conn[c] = "dialing" /\ using[c] \in Dials /\ near[using[c]] = "dialing"
  BY DEF ClientInv, DialInv, DialFails
<1>2. \A i \in 1..Len(failures[c]) : failures[c][i] # using[c]
  BY <1>1 DEF ClientInv, FreshInv
<1>3. QED
  BY <1>1, <1>2, AttemptFailsInv DEF DialFails

LEMMA OpenFailsInv ==
  ASSUME ClientInv, NEW c \in Conns, OpenFails(c)
  PROVE  ClientInv'
<1>1. conn[c] = "opening" /\ using[c] \in Dials /\ near[using[c]] = "dead"
  BY DEF ClientInv, DialInv, OpenFails
<1>2. near' = [near EXCEPT ![using[c]] = "dead"]
  BY <1>1 DEF OpenFails, ClientInv, ClientTypes
<1>3. \A i \in 1..Len(failures[c]) : failures[c][i] # using[c]
  BY <1>1 DEF ClientInv, FreshInv
<1>4. QED
  BY <1>1, <1>2, <1>3, AttemptFailsInv DEF OpenFails

LEMMA OpenOkInv ==
  ASSUME ClientInv, NEW c \in Conns, OpenOk(c)
  PROVE  ClientInv'
<1> USE DEF ClientInv
<1>1. /\ \A d \in Conns : d # c =>
           conn'[d] = conn[d] /\ failures'[d] = failures[d] /\ using'[d] = using[d]
      /\ conn[c] = "opening" /\ conn'[c] = "pumping"
      /\ failures'[c] = <<>> /\ Len(failures'[c]) = 0
  BY EmptySeq DEF OpenOk, ClientTypes
<1>2. ClientTypes'
  <2>1. /\ failures' \in [Conns -> Seq(Dials)] /\ using' \in [Conns -> {0} \cup Dials]
        /\ conn' \in [Conns -> {"idle", "locking", "dialing", "opening", "pumping", "failed"}]
    BY EmptySeq DEF OpenOk, ClientTypes
  <2>2. \A d \in Conns :
          /\ Len(failures'[d]) \in 0..2
          /\ conn'[d] \in {"idle", "pumping"} => Len(failures'[d]) = 0
          /\ conn'[d] = "failed" => Len(failures'[d]) = 2
          /\ conn'[d] \in {"locking", "dialing", "opening"} => Len(failures'[d]) < 2
    BY <1>1, SMTT(30) DEF ClientTypes, Attempts
  <2>3. QED
    BY <2>1, <2>2 DEF OpenOk, ClientTypes, Attempts
<1>3. MutexInv'
  BY <1>1 DEF OpenOk, ClientTypes, MutexInv
<1>4. DialInv'
  BY <1>1 DEF OpenOk, ClientTypes, DialInv
<1>5. FreshInv'
  BY <1>1 DEF OpenOk, ClientTypes, FreshInv
<1>6. BudgetInv'
  <2>1. Used[c] <= Used'[c] /\ dials' = dials /\ dials \in Nat
    <3>1. Used'[c] = 2
      BY <1>1 DEF Used, Attempts
    <3>2. Used[c] \in 0..2
      BY UsedType
    <3>3. QED
      BY <3>1, <3>2, ConstantTypes DEF OpenOk, ClientTypes
  <2>2. Spent \subseteq Spent'
    BY <1>1, <1>2, <2>1, UsedOf
  <2>3. QED
    BY <2>1, <2>2, BudgetKept
<1>7. QED
  BY <1>2, <1>3, <1>4, <1>5, <1>6

LEMMA NearDiesInv ==
  ASSUME ClientInv, NEW t \in Dials, NearDies(t)
  PROVE  ClientInv'
<1> USE DEF ClientInv
<1>1. UNCHANGED <<conn, failures, using, mutex, current, dials>>
  BY DEF NearDies, clientVars
<1>2. ClientTypes'
  BY <1>1 DEF NearDies, ClientTypes
<1>3. MutexInv'
  BY <1>1 DEF MutexInv
<1>4. DialInv'
  BY <1>1 DEF NearDies, ClientTypes, DialInv
<1>5. FreshInv'
  <2>1. \A u \in Dials : near[u] = "dead" => near'[u] = "dead"
    BY DEF NearDies, ClientTypes
  <2>2. \A c \in Conns : \A i \in 1..Len(failures[c]) : failures[c][i] \in Dials
    BY DEF ClientTypes
  <2>3. QED
    BY <1>1, <2>1, <2>2 DEF FreshInv
<1>6. BudgetInv'
  BY <1>1 DEF BudgetInv, Spent, Used
<1>7. QED
  BY <1>2, <1>3, <1>4, <1>5, <1>6

LEMMA ClientNext == ClientInv /\ [Next]_vars => ClientInv'
<1> SUFFICES ASSUME ClientInv, [Next]_vars PROVE ClientInv'
  OBVIOUS
<1>1. ASSUME UNCHANGED <<clientVars, near>> PROVE ClientInv'
  BY <1>1 DEF clientVars, ClientInv, ClientTypes, MutexInv, DialInv, FreshInv,
              BudgetInv, Spent, Used
<1>2. ASSUME NEW c \in Conns,
             \/ Accept(c) \/ TakeCached(c) \/ DialBegins(c) \/ DialOk(c)
             \/ DialFails(c) \/ OpenOk(c) \/ OpenFails(c)
      PROVE  ClientInv'
  BY <1>2, AcceptInv, TakeCachedInv, DialBeginsInv, DialOkInv, DialFailsInv,
     OpenOkInv, OpenFailsInv
<1>3. ASSUME NEW t \in Dials,
             \/ NearDies(t) \/ ServerAccepts(t) \/ HandshakeOk(t)
             \/ ListTunnel(t) \/ HandshakeFails(t) \/ FarDies(t) \/ Kill(t)
      PROVE  ClientInv'
  BY <1>1, <1>3, NearDiesInv DEF ServerAccepts, HandshakeOk, ListTunnel, HandshakeFails,
     FarDies, Kill, Dies
<1>4. CASE Shutdown \/ AbortAll
  BY <1>1, <1>4 DEF Shutdown, AbortAll
<1>5. CASE UNCHANGED vars
  BY <1>1, <1>5 DEF vars
<1>6. QED
  BY <1>2, <1>3, <1>4, <1>5 DEF Next

LEMMA ClientInvariant == Spec => []ClientInv
  BY ClientInit, ClientNext, PTL DEF Spec

(* However many connections find the cached tunnel dead and whatever dies  *)
(* when, the client holds one live tunnel at most.                         *)
THEOREM ClientHoldsOneTunnel == Spec => []OneLiveTunnel
<1>1. ClientInv => OneLiveTunnel
  BY DEF ClientInv, DialInv, OneLiveTunnel
<1>2. QED
  BY <1>1, ClientInvariant, PTL

(* No connection is given up because of the same dead tunnel twice.        *)
THEOREM RetriesAreFresh == Spec => []RetryIsFresh
<1>1. ClientInv => RetryIsFresh
  <2> SUFFICES ASSUME ClientInv, NEW c \in Conns, conn[c] = "failed"
               PROVE  \E s, t \in Dials : s # t /\ failures[c] = <<s, t>>
    BY DEF RetryIsFresh
  <2>1. /\ failures[c] \in Seq(Dials) /\ Len(failures[c]) = 2
        /\ failures[c][1] # failures[c][2]
    BY DEF ClientInv, ClientTypes, FreshInv, Attempts
  <2>2. failures[c] = <<failures[c][1], failures[c][2]>>
    BY <2>1
  <2>3. failures[c][1] \in Dials /\ failures[c][2] \in Dials
    BY <2>1
  <2>4. QED
    BY <2>1, <2>2, <2>3
<1>2. QED
  BY <1>1, ClientInvariant, PTL

-----------------------------------------------------------------------------
(* Types: those of the client follow from its invariant, with the bounds   *)
(* on the queue and on the dials; those of the server are inductive.       *)
ServerTypes ==
  /\ far \in [Dials -> {"none", "handshake", "spawned", "listed", "closed"}]
  /\ up \subseteq Dials /\ live \subseteq Dials /\ doomed \subseteq Dials
  /\ settled \subseteq Dials
  /\ serving \in {"accepting", "killing", "stopped"}

LEMMA ServerTypesNext == ServerTypes /\ [Next]_vars => ServerTypes'
<1> SUFFICES ASSUME ServerTypes, [Next]_vars PROVE ServerTypes'
  OBVIOUS
<1> USE DEF ServerTypes, serverVars
<1>1. ASSUME NEW c \in Conns,
             \/ Accept(c) \/ TakeCached(c) \/ DialBegins(c) \/ DialOk(c)
             \/ DialFails(c) \/ OpenOk(c) \/ OpenFails(c)
      PROVE  ServerTypes'
  BY <1>1 DEF Accept, TakeCached, DialBegins, Dialing, DialOk, DialFails, OpenOk, OpenFails
<1>2. ASSUME NEW t \in Dials, NearDies(t) \/ ServerAccepts(t) \/ HandshakeFails(t)
      PROVE  ServerTypes'
  BY <1>2 DEF NearDies, ServerAccepts, HandshakeFails
<1>3. ASSUME NEW t \in Dials, HandshakeOk(t) \/ ListTunnel(t) \/ FarDies(t) \/ Kill(t)
      PROVE  ServerTypes'
  BY <1>3 DEF HandshakeOk, ListTunnel, Retained, FarDies, Kill, Dies
<1>4. CASE Shutdown \/ AbortAll
  BY <1>4 DEF Shutdown, AbortAll
<1>5. CASE UNCHANGED vars
  BY <1>5 DEF vars
<1>6. QED
  BY <1>1, <1>2, <1>3, <1>4, <1>5 DEF Next

(* No connection is at the mutex twice, so no more of them than there are. *)
LEMMA QueueBound ==
  ASSUME NEW q \in Seq(Conns), Distinct(q)
  PROVE  Len(q) <= Cardinality(Conns)
<1>1. q \in [1..Len(q) -> Conns] /\ Len(q) \in Nat
  OBVIOUS
<1>2. q \in Injection(1..Len(q), Conns)
  BY <1>1 DEF Injection, IsInjective, Distinct
<1>3. Cardinality(1..Len(q)) <= Cardinality(Conns)
  BY <1>2, ServiceAssumption, FS_Injection
<1>4. 1 \in Int /\ Len(q) \in Int
  BY <1>1
<1>5. Cardinality(1..Len(q)) = IF 1 > Len(q) THEN 0 ELSE Len(q) - 1 + 1
  BY <1>4, FS_Interval, Zenon
<1>6. QED
  BY <1>1, <1>3, <1>5, ConstantTypes

(* TypeOK holds of every reachable state: no more dials are begun than two *)
(* for each connection, and no more connections wait than there are.       *)
THEOREM ServiceTypeCorrect == Spec => []TypeOK
<1>1. Init => ServerTypes
  BY DEF Init, ServerTypes
<1>2. Spec => []ServerTypes
  BY <1>1, ServerTypesNext, PTL DEF Spec
<1>3. ClientInv /\ ServerTypes => TypeOK
  <2> SUFFICES ASSUME ClientInv, ServerTypes PROVE TypeOK
    OBVIOUS
  <2>1. failures \in [Conns -> UNION {[1..n -> Dials] : n \in 0..Attempts}]
    <3> SUFFICES ASSUME NEW c \in Conns
                 PROVE  failures[c] \in UNION {[1..n -> Dials] : n \in 0..Attempts}
      BY DEF ClientInv, ClientTypes
    <3>1. failures[c] \in [1..Len(failures[c]) -> Dials] /\ Len(failures[c]) \in 0..Attempts
      BY DEF ClientInv, ClientTypes
    <3>2. QED
      BY <3>1
  <2>2. mutex \in UNION {[1..n -> Conns] : n \in 0..Cardinality(Conns)}
    <3>1. mutex \in Seq(Conns) /\ Distinct(mutex)
      BY DEF ClientInv, ClientTypes, MutexInv, Distinct
    <3>2. mutex \in [1..Len(mutex) -> Conns] /\ Len(mutex) \in Nat
      BY <3>1
    <3>3. Len(mutex) \in 0..Cardinality(Conns)
      BY <3>1, <3>2, QueueBound, ConstantTypes
    <3>4. QED
      BY <3>2, <3>3
  <2>3. QED
    BY <2>1, <2>2 DEF TypeOK, ClientInv, ClientTypes, ServerTypes
<1>4. QED
  BY <1>2, <1>3, ClientInvariant, PTL
=============================================================================
