---------------------------- MODULE ServerProofs ----------------------------
(***************************************************************************)
(* Theorems about Server, for any finite set of clients and any number of  *)
(* tasks and signals: the order in which the threads take the mutexes, and *)
(* what the game does with the connections meanwhile.  Then theorems about *)
(* ClientView, for any ships, contacts and values of their fields: what a  *)
(* client shows once it has read what the server sent.                     *)
(***************************************************************************)
EXTENDS Server, ClientView, Sums, SequenceTheorems, FiniteSetTheorems, TLAPS

(* The order of the mutexes: mConnectionMutex, the send buffers,           *)
(* mActivityMutex.                                                         *)
ListRank == 0
BufferRank == 1
ActivityRank == 2
NoRank == 3

Rank(m) == IF m = Connection THEN ListRank
           ELSE IF m = Activity THEN ActivityRank ELSE BufferRank

(* The first mutex that a thread may take in an operation, with all that   *)
(* the operation leads to.                                                 *)
Reach(op) ==
  CASE op[1] = "lock" -> Rank(op[2])
    [] op[1] \in {"poll", "pick", "take", "ended"} -> ListRank
    [] op[1] \in {"send", "update", "console"} -> BufferRank
    [] op[1] = "clear" -> ActivityRank
    [] OTHER -> NoRank

(* An operation that a thread which holds m may come to: it takes what is  *)
(* behind m only, or waits for itself for ever.                            *)
Above(op, m) == op = Lock(m) \/ Rank(m) < Reach(op)

(* What releases m.  The worker that has looked at the tasks goes on to    *)
(* release mActivityMutex, unless it ends.                                 *)
Closes(op, m) ==
  \/ op[1] = "unlock" /\ op[2] = m
  \/ op[1] \in {"pick", "take", "ended"} /\ m = Activity

(* What a thread does, from its operation i on, until it releases m.       *)
Nested(s, m, i) ==
  \E j \in DOMAIN s : /\ j > i /\ Closes(s[j], m)
                      /\ \A k \in DOMAIN s : i < k /\ k < j => Above(s[k], m)

(* A thread that holds the mutexes H does what s says.                     *)
Guarded(s, H) ==
  /\ \A m \in H : Nested(s, m, 0)
  /\ \A i \in DOMAIN s : \A m \in Mutexes : s[i] = Lock(m) => Nested(s, m, i)

Held(t) == {m \in Mutexes : holder[m] = t}

-----------------------------------------------------------------------------
(* Sequences. *)

(* The operations of a sequence are those of its parts. *)
LEMMA Concatenation ==
  ASSUME NEW O, NEW s \in Seq(O), NEW r \in Seq(O)
  PROVE  /\ s \o r \in Seq(O) /\ Len(s) \in Nat /\ Len(r) \in Nat
         /\ DOMAIN (s \o r) = 1..(Len(s) + Len(r))
         /\ DOMAIN s = 1..Len(s) /\ DOMAIN r = 1..Len(r)
         /\ \A i \in DOMAIN s : (s \o r)[i] = s[i]
         /\ \A i \in DOMAIN r : (s \o r)[Len(s) + i] = r[i]
OBVIOUS

(* The operations of a sequence after the first. *)
LEMMA Rest ==
  ASSUME NEW O, NEW s \in Seq(O), s # <<>>
  PROVE  /\ Tail(s) \in Seq(O) /\ Len(s) \in Nat /\ Len(s) > 0
         /\ DOMAIN s = 1..Len(s) /\ DOMAIN Tail(s) = 1..(Len(s) - 1)
         /\ \A i \in DOMAIN Tail(s) : Tail(s)[i] = s[i + 1]
OBVIOUS

(* What a thread does first does not matter to a nesting later. *)
LEMMA NestedAfter ==
  ASSUME NEW O, NEW s \in Seq(O), NEW r \in Seq(O), NEW m, NEW i \in DOMAIN r \cup {0},
         Nested(r, m, i)
  PROVE  Nested(s \o r, m, Len(s) + i)
<1>1. PICK j \in DOMAIN r : /\ j > i /\ Closes(r[j], m)
                            /\ \A k \in DOMAIN r : i < k /\ k < j => Above(r[k], m)
  BY DEF Nested
<1> DEFINE b == s \o r
           n == Len(s)
<1>2. /\ n \in Nat /\ Len(r) \in Nat /\ DOMAIN b = 1..(n + Len(r)) /\ DOMAIN r = 1..Len(r)
      /\ \A k \in DOMAIN r : b[n + k] = r[k]
  BY Concatenation
<1> HIDE DEF b, n
<1>3. n + j \in DOMAIN b /\ n + j > n + i /\ Closes(b[n + j], m)
  BY <1>1, <1>2
<1>4. ASSUME NEW k \in DOMAIN b, n + i < k, k < n + j PROVE Above(b[k], m)
  <2>1. k - n \in DOMAIN r /\ i < k - n /\ k - n < j /\ n + (k - n) = k
    BY <1>2, <1>4
  <2>2. b[k] = r[k - n]
    BY <1>2, <2>1
  <2> QED BY <1>1, <2>1, <2>2
<1>5. Nested(b, m, n + i)
  BY <1>3, <1>4 DEF Nested
<1> QED BY <1>5 DEF b, n

(* What a thread does later does not matter to a nesting.                  *)
LEMMA NestedBefore ==
  ASSUME NEW O, NEW s \in Seq(O), NEW r \in Seq(O), NEW m, NEW i \in Nat,
         Nested(s, m, i)
  PROVE  Nested(s \o r, m, i)
<1>1. PICK j \in DOMAIN s : /\ j > i /\ Closes(s[j], m)
                            /\ \A k \in DOMAIN s : i < k /\ k < j => Above(s[k], m)
  BY DEF Nested
<1> DEFINE b == s \o r
<1>2. /\ Len(s) \in Nat /\ Len(r) \in Nat /\ DOMAIN b = 1..(Len(s) + Len(r))
      /\ DOMAIN s = 1..Len(s)
      /\ \A k \in DOMAIN s : b[k] = s[k]
  BY Concatenation
<1> HIDE DEF b
<1>3. j \in DOMAIN b /\ Closes(b[j], m)
  BY <1>1, <1>2
<1>4. ASSUME NEW k \in DOMAIN b, i < k, k < j PROVE Above(b[k], m)
  <2>1. k \in DOMAIN s
    BY <1>2, <1>4
  <2> QED BY <1>1, <1>2, <1>4, <2>1
<1>5. Nested(b, m, i)
  BY <1>1, <1>3, <1>4 DEF Nested
<1> QED BY <1>5 DEF b

(* A thread may first do what nests in all that it holds. *)
LEMMA GuardedBefore ==
  ASSUME NEW O, NEW ops \in Seq(O), NEW s \in Seq(O), NEW H,
         Guarded(ops, {}), Guarded(s, H),
         \A k \in DOMAIN ops : \A m \in H : Above(ops[k], m)
  PROVE  Guarded(ops \o s, H)
<1> DEFINE b == ops \o s
           n == Len(ops)
<1>1. /\ n \in Nat /\ Len(s) \in Nat /\ DOMAIN b = 1..(n + Len(s))
      /\ DOMAIN ops = 1..n /\ DOMAIN s = 1..Len(s)
      /\ \A i \in DOMAIN ops : b[i] = ops[i]
      /\ \A i \in DOMAIN s : b[n + i] = s[i]
  BY Concatenation
<1>2. ASSUME NEW m \in H PROVE Nested(b, m, 0)
  <2>1. Nested(b, m, n)
    <3>1. Nested(s, m, 0)
      BY DEF Guarded
    <3> QED BY <1>1, <3>1, NestedAfter
  <2>2. PICK j \in DOMAIN b : /\ j > n /\ Closes(b[j], m)
                              /\ \A k \in DOMAIN b : n < k /\ k < j => Above(b[k], m)
    BY <2>1 DEF Nested
  <2> HIDE DEF b, n
  <2>3. \A k \in DOMAIN b : k <= n => Above(b[k], m)
    BY <1>1
  <2>4. j > 0 /\ \A k \in DOMAIN b : 0 < k /\ k < j => Above(b[k], m)
    BY <1>1, <2>2, <2>3
  <2> QED BY <2>2, <2>4 DEF Nested
<1>3. ASSUME NEW i \in DOMAIN b, NEW m \in Mutexes, b[i] = Lock(m) PROVE Nested(b, m, i)
  <2>1. CASE i <= n
    <3>1. i \in Nat /\ Nested(ops, m, i)
      BY <1>1, <1>3, <2>1 DEF Guarded
    <3> QED BY <3>1, NestedBefore
  <2>2. CASE i > n
    <3>1. i - n \in DOMAIN s /\ n + (i - n) = i
      BY <1>1, <2>2
    <3>2. Nested(s, m, i - n)
      BY <1>1, <1>3, <3>1 DEF Guarded
    <3>3. Nested(b, m, n + (i - n))
      BY <3>1, <3>2, NestedAfter
    <3> QED BY <3>1, <3>3
  <2> QED BY <1>1, <2>1, <2>2
<1> QED BY <1>2, <1>3 DEF Guarded

(* A thread that has done its first operation holds what it held and did   *)
(* not release, and the mutex that it took.                                *)
LEMMA GuardedRest ==
  ASSUME NEW O, NEW s \in Seq(O), s # <<>>, NEW H, NEW G, G \subseteq Mutexes, Guarded(s, H),
         \A m \in G : (m \in H /\ ~Closes(s[1], m)) \/ s[1] = Lock(m)
  PROVE  Guarded(Tail(s), G)
<1> DEFINE r == Tail(s)
<1>1. /\ Len(s) \in Nat /\ Len(s) > 0 /\ DOMAIN s = 1..Len(s) /\ DOMAIN r = 1..(Len(s) - 1)
      /\ \A i \in DOMAIN r : r[i] = s[i + 1]
  BY Rest
<1> HIDE DEF r
<1>2. ASSUME NEW m, NEW i \in Nat, i > 0, Nested(s, m, i) PROVE Nested(r, m, i - 1)
  <2>1. PICK j \in DOMAIN s : /\ j > i /\ Closes(s[j], m)
                              /\ \A k \in DOMAIN s : i < k /\ k < j => Above(s[k], m)
    BY <1>2 DEF Nested
  <2>2. j - 1 \in DOMAIN r /\ j - 1 > i - 1 /\ Closes(r[j - 1], m)
    <3>1. j - 1 \in DOMAIN r /\ (j - 1) + 1 = j /\ j - 1 > i - 1
      BY <1>1, <1>2, <2>1
    <3> QED BY <1>1, <2>1, <3>1
  <2>3. ASSUME NEW k \in DOMAIN r, i - 1 < k, k < j - 1 PROVE Above(r[k], m)
    <3>1. k + 1 \in DOMAIN s /\ i < k + 1 /\ k + 1 < j
      BY <1>1, <1>2, <2>1, <2>3
    <3> QED BY <1>1, <2>1, <3>1
  <2> QED BY <2>2, <2>3 DEF Nested
<1>3. ASSUME NEW m \in G PROVE Nested(r, m, 0)
  <2>1. Nested(s, m, 1)
    <3>1. CASE m \in H /\ ~Closes(s[1], m)
      <4>1. PICK j \in DOMAIN s : /\ j > 0 /\ Closes(s[j], m)
                                  /\ \A k \in DOMAIN s : 0 < k /\ k < j => Above(s[k], m)
        BY <3>1 DEF Guarded, Nested
      <4>2. j > 1 /\ \A k \in DOMAIN s : 1 < k /\ k < j => 0 < k /\ k < j
        BY <1>1, <3>1, <4>1
      <4> QED BY <4>1, <4>2 DEF Nested
    <3>2. CASE s[1] = Lock(m)
      BY <1>1, <3>2 DEF Guarded
    <3> QED BY <3>1, <3>2
  <2> QED BY <1>2, <2>1
<1>4. ASSUME NEW i \in DOMAIN r, NEW m \in Mutexes, r[i] = Lock(m) PROVE Nested(r, m, i)
  <2>1. i + 1 \in DOMAIN s /\ s[i + 1] = Lock(m) /\ i + 1 \in Nat /\ i + 1 > 0 /\ (i + 1) - 1 = i
    BY <1>1, <1>4
  <2>2. Nested(s, m, i + 1)
    BY <2>1 DEF Guarded
  <2>3. Nested(r, m, (i + 1) - 1)
    BY <1>2, <2>1, <2>2
  <2> QED BY <2>1, <2>3
<1>5. Guarded(r, G)
  BY <1>3, <1>4 DEF Guarded
<1> QED BY <1>5 DEF r

(* A few operations in a row. *)
LEMMA TwoInARow ==
  ASSUME NEW a, NEW b
  PROVE  <<a>> \o <<b>> = <<a, b>>
<1> DEFINE O == {a, b}
           x == <<a>> \o <<b>>
           y == <<a, b>>
<1>1. x \in Seq(O) /\ y \in Seq(O) /\ Len(x) = 2 /\ Len(y) = 2 /\ x[1] = y[1] /\ x[2] = y[2]
  OBVIOUS
<1> HIDE DEF O, x, y
<1>2. x = y
  BY <1>1, SeqEqual
<1> QED BY <1>2 DEF x, y

(* One operation more. *)
LEMMA ThreeInARow ==
  ASSUME NEW a, NEW b, NEW c
  PROVE  <<a>> \o <<b>> \o <<c>> = <<a, b, c>>
<1> DEFINE O == {a, b, c}
           x == <<a, b>> \o <<c>>
           y == <<a, b, c>>
<1>1. x \in Seq(O) /\ y \in Seq(O) /\ Len(x) = 3 /\ Len(y) = 3
      /\ x[1] = y[1] /\ x[2] = y[2] /\ x[3] = y[3]
  OBVIOUS
<1> HIDE DEF O, x, y
<1>2. x = y
  BY <1>1, SeqEqual
<1> QED BY <1>2, TwoInARow DEF x, y

-----------------------------------------------------------------------------
(* Blocks: what a thread may do when all that it holds is before r.        *)
Operations ==
  {<<k>> : k \in {"pick", "take", "wait", "ended", "update", "clear", "shutdown", "join"}}
    \cup ({"poll", "push", "erase"} \X Sockets)
    \cup ({"send", "append", "want", "receive", "sate", "transmit", "enlist", "delist",
           "console"} \X Clients)
    \cup ({"lock", "unlock"} \X Mutexes) \cup {UnlockAndReturn}

Block(ops, r) ==
  /\ ops \in Seq(Operations) /\ Guarded(ops, {})
  /\ \A k \in DOMAIN ops : Reach(ops[k]) >= r

(* What an operation may reach. *)
LEMMA Reaches ==
  /\ ListRank \in Int /\ BufferRank \in Int /\ ActivityRank \in Int /\ NoRank \in Int
  /\ ListRank < BufferRank /\ BufferRank < ActivityRank /\ ActivityRank < NoRank
  /\ \A m : /\ Rank(m) \in Int /\ ListRank <= Rank(m) /\ Rank(m) <= ActivityRank
             /\ Reach(Lock(m)) = Rank(m) /\ Reach(Unlock(m)) = NoRank
  /\ Rank(Connection) = ListRank /\ Rank(Activity) = ActivityRank
  /\ \A c : Rank(SendBuffer(c)) = BufferRank
  /\ \A op : Reach(op) \in Int
BY DEF ListRank, BufferRank, ActivityRank, NoRank, Reach, Rank, Lock, Unlock, Connection, Activity, SendBuffer

(* The mutexes, as locks and unlocks. *)
LEMMA Locks ==
  /\ Connection \in Mutexes /\ Activity \in Mutexes
  /\ \A c \in Clients : SendBuffer(c) \in Mutexes
  /\ \A m \in Mutexes : Lock(m) \in Operations /\ Unlock(m) \in Operations
  /\ UnlockAndReturn \in Operations
BY DEF Mutexes, Operations, Lock, Unlock

(* One operation that takes nothing by itself is a block.                  *)
LEMMA BlockOfOne ==
  ASSUME NEW op \in Operations, op[1] # "lock", NEW r, Reach(op) >= r
  PROVE  Block(<<op>>, r)
BY DEF Block, Guarded, Lock

(* Blocks that follow each other are a block.                              *)
LEMMA BlockOfBlocks ==
  ASSUME NEW a, NEW b, NEW r, Block(a, r), Block(b, r)
  PROVE  Block(a \o b, r)
<1>1. /\ a \in Seq(Operations) /\ Guarded(a, {}) /\ \A k \in DOMAIN a : Reach(a[k]) >= r
      /\ b \in Seq(Operations) /\ Guarded(b, {}) /\ \A k \in DOMAIN b : Reach(b[k]) >= r
  BY DEF Block
<1>2. /\ a \o b \in Seq(Operations) /\ Len(a) \in Nat /\ Len(b) \in Nat
      /\ DOMAIN (a \o b) = 1..(Len(a) + Len(b))
      /\ DOMAIN a = 1..Len(a) /\ DOMAIN b = 1..Len(b)
      /\ \A i \in DOMAIN a : (a \o b)[i] = a[i]
      /\ \A i \in DOMAIN b : (a \o b)[Len(a) + i] = b[i]
  BY <1>1, Concatenation
<1>3. Guarded(a \o b, {})
  BY <1>1, GuardedBefore
<1>4. ASSUME NEW k \in DOMAIN (a \o b) PROVE Reach((a \o b)[k]) >= r
  <2>1. CASE k <= Len(a)
    BY <1>1, <1>2, <2>1
  <2>2. CASE k > Len(a)
    <3>1. k - Len(a) \in DOMAIN b /\ Len(a) + (k - Len(a)) = k
      BY <1>2, <2>2
    <3> QED BY <1>1, <1>2, <3>1
  <2> QED BY <1>2, <2>1, <2>2
<1> QED BY <1>2, <1>3, <1>4 DEF Block

(* A block may be less restricted. *)
LEMMA BlockReachesMore ==
  ASSUME NEW a, NEW r \in Int, NEW q \in Int, q <= r, Block(a, r)
  PROVE  Block(a, q)
BY Reaches DEF Block

(* What is done between taking a mutex and its release makes a block with  *)
(* them if it takes only what comes after that mutex.                      *)
LEMMA Section ==
  ASSUME NEW m \in Mutexes, NEW body, NEW r \in Int, Rank(m) < r, Block(body, r),
         NEW u \in {Unlock(m), UnlockAndReturn}, u = UnlockAndReturn => m = Activity
  PROVE  Block(<<Lock(m)>> \o body \o <<u>>, Rank(m))
<1>1. /\ body \in Seq(Operations) /\ Guarded(body, {})
      /\ \A k \in DOMAIN body : Reach(body[k]) >= r
  BY DEF Block
<1>2. /\ u \in Operations /\ Closes(u, m) /\ u[1] # "lock" /\ Reach(u) = NoRank
  BY Locks DEF Unlock, UnlockAndReturn, Closes, Reach
<1>3. Lock(m) \in Operations /\ Reach(Lock(m)) = Rank(m) /\ Rank(m) \in Int /\ Rank(m) <= NoRank
  BY Locks, Reaches
<1> DEFINE b == body \o <<u>>
<1>4. /\ b \in Seq(Operations) /\ Len(body) \in Nat /\ DOMAIN b = 1..(Len(body) + 1)
      /\ DOMAIN body = 1..Len(body)
      /\ \A i \in DOMAIN body : b[i] = body[i]
      /\ b[Len(body) + 1] = u
  BY <1>1, <1>2
<1>5. Block(b, Rank(m))
  <2>1. Block(<<u>>, Rank(m))
    BY <1>2, <1>3, BlockOfOne
  <2>2. Block(body, Rank(m))
    BY <1>3, BlockReachesMore, Reaches
  <2> QED BY <2>1, <2>2, BlockOfBlocks
<1>6. Nested(b, m, 0)
  <2>1. \A k \in DOMAIN b : 0 < k /\ k < Len(body) + 1 => Above(b[k], m)
    BY <1>1, <1>3, <1>4, Reaches DEF Above
  <2> QED BY <1>2, <1>4, <2>1 DEF Nested
<1> HIDE DEF b
<1> DEFINE first == <<Lock(m)>>
           s == first \o b
<1>0. first \in Seq(Operations) /\ Len(first) = 1
  BY <1>3
<1>7. /\ s \in Seq(Operations) /\ DOMAIN s = 1..(Len(b) + 1) /\ Len(b) \in Nat /\ DOMAIN b = 1..Len(b)
      /\ s[1] = Lock(m) /\ \A i \in DOMAIN b : s[1 + i] = b[i]
  BY <1>3, <1>4
<1>8. Nested(s, m, 1)
  <2> HIDE DEF first
  <2>1. Nested(first \o b, m, Len(first) + 0)
    BY <1>0, <1>4, <1>6, NestedAfter
  <2> QED BY <1>0, <2>1
<1>9. Guarded(s, {})
  <2> SUFFICES ASSUME NEW i \in DOMAIN s, NEW n \in Mutexes, s[i] = Lock(n) PROVE Nested(s, n, i)
    BY DEF Guarded
  <2>1. CASE i = 1
    BY <1>7, <1>8, <2>1 DEF Lock
  <2>2. CASE i # 1
    <3>1. i - 1 \in DOMAIN b /\ 1 + (i - 1) = i /\ b[i - 1] = s[i]
      BY <1>7, <2>2
    <3>2. Nested(b, n, i - 1)
      BY <1>5, <3>1 DEF Block, Guarded
    <3> HIDE DEF first
    <3>3. Nested(first \o b, n, Len(first) + (i - 1))
      BY <1>0, <1>4, <3>1, <3>2, NestedAfter
    <3> QED BY <1>0, <3>1, <3>3
  <2> QED BY <2>1, <2>2
<1>10. \A k \in DOMAIN s : Reach(s[k]) >= Rank(m)
  <2> SUFFICES ASSUME NEW k \in DOMAIN s, k # 1 PROVE Reach(s[k]) >= Rank(m)
    BY <1>3, <1>7
  <2>1. k - 1 \in DOMAIN b /\ 1 + (k - 1) = k /\ s[k] = b[k - 1]
    BY <1>7
  <2> QED BY <1>5, <2>1 DEF Block
<1>11. Block(s, Rank(m))
  BY <1>7, <1>9, <1>10 DEF Block
<1>12. s = <<Lock(m)>> \o body \o <<u>>
  BY <1>1, <1>2, <1>3 DEF b
<1> QED BY <1>11, <1>12
-----------------------------------------------------------------------------
(* The functions of the code as blocks.                                    *)

(* Operations that take no mutex by themselves.                            *)
LEMMA Plain ==
  /\ \A r \in {ListRank, BufferRank, ActivityRank, NoRank} :
       /\ \A c \in Clients :
            /\ Block(<<<<"append", c>>>>, r) /\ Block(<<<<"want", c>>>>, r)
            /\ Block(<<<<"receive", c>>>>, r) /\ Block(<<<<"sate", c>>>>, r)
            /\ Block(<<<<"transmit", c>>>>, r) /\ Block(<<<<"enlist", c>>>>, r)
            /\ Block(<<<<"delist", c>>>>, r)
       /\ \A s \in Sockets : Block(<<<<"push", s>>>>, r) /\ Block(<<<<"erase", s>>>>, r)
       /\ Block(<<<<"shutdown">>>>, r) /\ Block(<<<<"join">>>>, r) /\ Block(<<<<"wait">>>>, r)
  /\ \A r \in {ListRank, BufferRank, ActivityRank} : Block(<<<<"clear">>>>, r)
  /\ \A r \in {ListRank, BufferRank} :
       /\ \A c \in Clients : Block(<<<<"send", c>>>>, r) /\ Block(<<<<"console", c>>>>, r)
       /\ Block(<<<<"update">>>>, r)
  /\ \A s \in Sockets : Block(<<<<"poll", s>>>>, ListRank)
<1>1. ASSUME NEW op \in Operations, op[1] # "lock", NEW r, Reach(op) >= r PROVE Block(<<op>>, r)
  BY <1>1, BlockOfOne
<1>2. ASSUME NEW r \in {ListRank, BufferRank, ActivityRank, NoRank}, NEW c \in Clients,
             NEW k \in {"append", "want", "receive", "sate", "transmit", "enlist", "delist"}
      PROVE  Block(<<<<k, c>>>>, r)
  <2>1. <<k, c>> \in Operations /\ Reach(<<k, c>>) = NoRank /\ <<k, c>>[1] # "lock"
    BY DEF Operations, Reach
  <2> QED BY <1>1, <2>1, Reaches
<1>3. ASSUME NEW r \in {ListRank, BufferRank, ActivityRank, NoRank}, NEW s \in Sockets,
             NEW k \in {"push", "erase"}
      PROVE  Block(<<<<k, s>>>>, r)
  <2>1. <<k, s>> \in Operations /\ Reach(<<k, s>>) = NoRank /\ <<k, s>>[1] # "lock"
    BY DEF Operations, Reach
  <2> QED BY <1>1, <2>1, Reaches
<1>4. ASSUME NEW r \in {ListRank, BufferRank, ActivityRank, NoRank}, NEW k \in {"shutdown", "join", "wait"}
      PROVE  Block(<<<<k>>>>, r)
  <2>1. <<k>> \in Operations /\ Reach(<<k>>) = NoRank /\ <<k>>[1] # "lock"
    BY DEF Operations, Reach
  <2> QED BY <1>1, <2>1, Reaches
<1>5. ASSUME NEW r \in {ListRank, BufferRank}, NEW c \in Clients, NEW k \in {"send", "console"}
      PROVE  Block(<<<<k, c>>>>, r)
  <2>1. <<k, c>> \in Operations /\ Reach(<<k, c>>) = BufferRank /\ <<k, c>>[1] # "lock"
    BY DEF Operations, Reach
  <2> QED BY <1>1, <2>1, Reaches
<1>6. ASSUME NEW r \in {ListRank, BufferRank} PROVE Block(<<<<"update">>>>, r)
  <2>1. <<"update">> \in Operations /\ Reach(<<"update">>) = BufferRank /\ <<"update">>[1] # "lock"
    BY DEF Operations, Reach
  <2> QED BY <1>1, <2>1, Reaches
<1>7. ASSUME NEW r \in {ListRank, BufferRank, ActivityRank} PROVE Block(<<<<"clear">>>>, r)
  <2>1. <<"clear">> \in Operations /\ Reach(<<"clear">>) = ActivityRank /\ <<"clear">>[1] # "lock"
    BY DEF Operations, Reach
  <2> QED BY <1>1, <2>1, Reaches
<1>8. ASSUME NEW s \in Sockets PROVE Block(<<<<"poll", s>>>>, ListRank)
  <2>1. <<"poll", s>> \in Operations /\ Reach(<<"poll", s>>) = ListRank /\ <<"poll", s>>[1] # "lock"
    BY DEF Operations, Reach
  <2> QED BY <1>1, <2>1, Reaches
<1> QED BY <1>2, <1>3, <1>4, <1>5, <1>6, <1>7, <1>8

(* Nothing to do. *)
LEMMA NothingIsABlock == ASSUME NEW r PROVE Block(<<>>, r)
BY DEF Block, Guarded

(* PostActivity, in the handler of the signal as well, Read and the        *)
(* deletion of a socket take mActivityMutex.                               *)
LEMMA ActivityBlocks ==
  /\ \A s \in Sockets : /\ Block(PostActivity(s), ActivityRank) /\ Block(SigIOAction(s), ActivityRank)
                        /\ Block(DeleteSocket(s), ActivityRank)
  /\ \A c \in Clients : Block(Read(c), ActivityRank)
<1>1. ASSUME NEW op, Block(<<op>>, NoRank), NEW u \in {Unlock(Activity), UnlockAndReturn}
      PROVE  Block(<<Lock(Activity), op, u>>, ActivityRank)
  <2>1. Activity \in Mutexes /\ Rank(Activity) = ActivityRank
        /\ Rank(Activity) < NoRank /\ NoRank \in Int
    BY Locks, Reaches
  <2>2. Block(<<Lock(Activity)>> \o <<op>> \o <<u>>, Rank(Activity))
    <3> DEFINE body == <<op>>
    <3> HIDE DEF body
    <3>1. Block(body, NoRank) /\ Rank(Activity) < NoRank
      BY <1>1, <2>1 DEF body
    <3>2. Block(<<Lock(Activity)>> \o body \o <<u>>, Rank(Activity))
      BY <2>1, <3>1, Section
    <3> QED BY <3>2 DEF body
  <2>3. <<Lock(Activity)>> \o <<op>> \o <<u>> = <<Lock(Activity), op, u>>
    BY TwoInARow, ThreeInARow
  <2> QED BY <2>1, <2>2, <2>3
<1>2. ASSUME NEW s \in Sockets
      PROVE  /\ Block(PostActivity(s), ActivityRank) /\ Block(SigIOAction(s), ActivityRank)
             /\ Block(DeleteSocket(s), ActivityRank)
  <2>1. Block(<<<<"push", s>>>>, NoRank) /\ Block(<<<<"erase", s>>>>, NoRank)
    BY Plain
  <2> QED BY <1>1, <2>1 DEF PostActivity, SigIOAction, DeleteSocket
<1>3. ASSUME NEW c \in Clients PROVE Block(Read(c), ActivityRank)
  <2>1. Block(<<<<"want", c>>>>, ActivityRank)
    BY Plain
  <2>2. Block(PostActivity(c), ActivityRank)
    BY <1>2 DEF Sockets
  <2> QED BY <2>1, <2>2, BlockOfBlocks DEF Read
<1> QED BY <1>2, <1>3

(* Sending and transmitting take mSendBufferMutex.                         *)
LEMMA SendBlocks ==
  ASSUME NEW c \in Clients
  PROVE  Block(SendConnected(c), BufferRank) /\ Block(PolloutReceived(c), BufferRank) /\ Block(Send(c), BufferRank)
<1>1. ASSUME NEW op, Block(<<op>>, NoRank)
      PROVE  Block(<<Lock(SendBuffer(c)), op, Unlock(SendBuffer(c))>>, BufferRank)
  <2> DEFINE m == SendBuffer(c)
  <2>1. m \in Mutexes /\ Rank(m) = BufferRank /\ Rank(m) < NoRank /\ NoRank \in Int
        /\ Unlock(m) # UnlockAndReturn
    BY Locks, Reaches DEF Unlock, UnlockAndReturn
  <2> HIDE DEF m
  <2>2. Block(<<Lock(m)>> \o <<op>> \o <<Unlock(m)>>, Rank(m))
    <3> DEFINE body == <<op>>
    <3> HIDE DEF body
    <3>1. Block(body, NoRank) /\ Rank(m) < NoRank
      BY <1>1, <2>1 DEF body
    <3>2. Block(<<Lock(m)>> \o body \o <<Unlock(m)>>, Rank(m))
      BY <2>1, <3>1, Section
    <3> QED BY <3>2 DEF body
  <2>3. <<Lock(m)>> \o <<op>> \o <<Unlock(m)>> = <<Lock(m), op, Unlock(m)>>
    BY TwoInARow, ThreeInARow
  <2> QED BY <2>1, <2>2, <2>3 DEF m
<1>2. /\ Block(<<<<"append", c>>>>, NoRank) /\ Block(<<<<"transmit", c>>>>, NoRank)
      /\ Block(<<<<"send", c>>>>, BufferRank)
  BY Plain
<1>3. Block(PostActivity(c), BufferRank)
  BY ActivityBlocks, BlockReachesMore, Reaches DEF Sockets
<1>4. Block(<<Lock(SendBuffer(c)), <<"append", c>>, Unlock(SendBuffer(c))>>, BufferRank)
  BY <1>1, <1>2
<1> QED BY <1>1, <1>2, <1>3, <1>4, BlockOfBlocks DEF SendConnected, PolloutReceived, Send

(* What is done with the list of connections. *)
LEMMA ListSection ==
  ASSUME NEW body, Block(body, BufferRank)
  PROVE  Block(<<Lock(Connection)>> \o body \o <<Unlock(Connection)>>, ListRank)
<1>1. /\ Connection \in Mutexes /\ Rank(Connection) = ListRank /\ ListRank < BufferRank /\ BufferRank \in Int
      /\ Unlock(Connection) # UnlockAndReturn
  BY Locks, Reaches DEF Unlock, UnlockAndReturn
<1> QED BY <1>1, Section

(* What the worker does with a connection.                                 *)
LEMMA ConnectionBlocks ==
  ASSUME NEW c \in Clients
  PROVE  /\ Block(ConnectionAccepted(c), ListRank) /\ Block(Disconnected(c), ListRank)
         /\ \A answered \in BOOLEAN : Block(DataRead(c, answered), ListRank)
         /\ Block(PolloutReceived(c), ListRank)
<1>1. c \in Sockets
  BY DEF Sockets
<1>2. Block(Send(c), ListRank) /\ Block(Read(c), ListRank) /\ Block(PolloutReceived(c), ListRank)
  <2>1. Block(Send(c), BufferRank) /\ Block(Read(c), ActivityRank) /\ Block(PolloutReceived(c), BufferRank)
    BY ActivityBlocks, SendBlocks
  <2>2. Block(Send(c), ListRank)
    BY <2>1, BlockReachesMore, Reaches
  <2>3. Block(Read(c), ListRank)
    BY <2>1, BlockReachesMore, Reaches
  <2>4. Block(PolloutReceived(c), ListRank)
    BY <2>1, BlockReachesMore, Reaches
  <2> QED BY <2>2, <2>3, <2>4
<1>3. Block(ConnectionAccepted(c), ListRank)
  <2>1. Block(<<<<"enlist", c>>>>, BufferRank)
    BY Plain
  <2>2. Block(<<Lock(Connection)>> \o <<<<"enlist", c>>>> \o <<Unlock(Connection)>>, ListRank)
    BY <2>1, ListSection
  <2>3. <<Lock(Connection)>> \o <<<<"enlist", c>>>> \o <<Unlock(Connection)>>
          = <<Lock(Connection), <<"enlist", c>>, Unlock(Connection)>>
    BY TwoInARow, ThreeInARow
  <2> QED BY <1>2, <2>2, <2>3, BlockOfBlocks DEF ConnectionAccepted
<1>4. Block(Disconnected(c), ListRank)
  <2> DEFINE body == <<<<"delist", c>>>> \o DeleteSocket(c)
  <2>1. Block(body, BufferRank)
    <3>1. Block(<<<<"delist", c>>>>, BufferRank)
      BY Plain
    <3>2. Block(DeleteSocket(c), ActivityRank)
      BY <1>1, ActivityBlocks
    <3>3. Block(DeleteSocket(c), BufferRank)
      BY <3>2, BlockReachesMore, Reaches
    <3> QED BY <3>1, <3>3, BlockOfBlocks
  <2>2. Block(<<Lock(Connection)>> \o body \o <<Unlock(Connection)>>, ListRank)
    BY <2>1, ListSection
  <2>3. Block(<<<<"erase", c>>>>, ListRank)
    BY <1>1, Plain
  <2>4. Block(<<<<"erase", c>>>> \o (<<Lock(Connection)>> \o body \o <<Unlock(Connection)>>), ListRank)
    BY <2>2, <2>3, BlockOfBlocks
  <2>5. Disconnected(c)
          = <<<<"erase", c>>>> \o (<<Lock(Connection)>> \o body \o <<Unlock(Connection)>>)
    BY DEF Disconnected, DeleteSocket
  <2> QED BY <2>4, <2>5
<1>5. ASSUME NEW answered \in BOOLEAN PROVE Block(DataRead(c, answered), ListRank)
  <2>1. Block(<<<<"receive", c>>, <<"sate", c>>>>, ListRank)
    <3>1. Block(<<<<"receive", c>>>>, ListRank) /\ Block(<<<<"sate", c>>>>, ListRank)
      BY Plain
    <3>2. <<<<"receive", c>>>> \o <<<<"sate", c>>>> = <<<<"receive", c>>, <<"sate", c>>>>
      BY TwoInARow, ThreeInARow
    <3> QED BY <3>1, <3>2, BlockOfBlocks
  <2>2. Block(IF answered THEN Send(c) ELSE <<>>, ListRank)
    BY <1>2, NothingIsABlock
  <2> QED BY <1>2, <2>1, <2>2, BlockOfBlocks DEF DataRead
<1> QED BY <1>2, <1>3, <1>4, <1>5

(* What the game begins, and what it comes to.                             *)
LEMMA GameBlocks ==
  /\ Block(UpdateClients, ListRank) /\ \A c \in Clients : Block(ConsoleUpdate(c), ListRank)
  /\ Block(Stop, ListRank)
  /\ \A c \in Clients : Block(DeleteSocket(c) \o <<<<"clear">>>>, ActivityRank)
<1>1. Block(UpdateClients, ListRank)
  <2>1. Block(<<Lock(Connection)>> \o <<<<"update">>>> \o <<Unlock(Connection)>>, ListRank)
    BY Plain, ListSection
  <2>2. UpdateClients = <<Lock(Connection)>> \o <<<<"update">>>> \o <<Unlock(Connection)>>
    BY DEF UpdateClients
  <2> QED BY <2>1, <2>2
<1>2. ASSUME NEW c \in Clients PROVE Block(ConsoleUpdate(c), ListRank)
  <2>1. Block(<<Lock(Connection)>> \o <<<<"console", c>>>> \o <<Unlock(Connection)>>, ListRank)
    BY Plain, ListSection
  <2>2. ConsoleUpdate(c)
          = <<Lock(Connection)>> \o <<<<"console", c>>>> \o <<Unlock(Connection)>>
    BY DEF ConsoleUpdate
  <2> QED BY <2>1, <2>2
<1>3. Block(Stop, ListRank)
  <2> DEFINE end == <<Lock(Activity)>> \o <<<<"shutdown">>>> \o <<Unlock(Activity)>>
             body == <<<<"clear">>>> \o end \o <<<<"join">>>>
  <2>1. Block(end, ActivityRank)
    <3> DEFINE inner == <<<<"shutdown">>>>
    <3>1. Block(inner, NoRank)
      BY Plain
    <3> HIDE DEF inner
    <3>2. Activity \in Mutexes /\ Rank(Activity) = ActivityRank /\ Rank(Activity) < NoRank
          /\ NoRank \in Int
      BY Locks, Reaches
    <3>3. Block(<<Lock(Activity)>> \o inner \o <<Unlock(Activity)>>, Rank(Activity))
      BY <3>1, <3>2, Section
    <3> QED BY <3>2, <3>3 DEF inner
  <2>2. Block(body, ActivityRank)
    <3>1. Block(<<<<"clear">>>>, ActivityRank) /\ Block(<<<<"join">>>>, ActivityRank)
      BY Plain
    <3> HIDE DEF end
    <3> QED BY <2>1, <3>1, BlockOfBlocks
  <2>3. Block(<<Lock(Connection)>> \o body \o <<Unlock(Connection)>>, ListRank)
    <3> HIDE DEF body
    <3>1. Block(body, BufferRank)
      BY <2>2, BlockReachesMore, Reaches
    <3> QED BY <3>1, ListSection
  <2>4. Block(DeleteSocket(Listener), ListRank)
    BY ActivityBlocks, BlockReachesMore, Reaches DEF Sockets
  <2>5. <<Lock(Connection)>> \o body \o <<Unlock(Connection)>>
          = <<Lock(Connection), <<"clear">>,
              Lock(Activity), <<"shutdown">>, Unlock(Activity), <<"join">>, Unlock(Connection)>>
    <3> DEFINE x == <<Lock(Connection)>> \o body \o <<Unlock(Connection)>>
               y == <<Lock(Connection), <<"clear">>,
                      Lock(Activity), <<"shutdown">>, Unlock(Activity), <<"join">>,
                      Unlock(Connection)>>
    <3>1. /\ Lock(Connection) \in Operations /\ Unlock(Connection) \in Operations
          /\ Lock(Activity) \in Operations /\ Unlock(Activity) \in Operations
          /\ <<"clear">> \in Operations /\ <<"shutdown">> \in Operations /\ <<"join">> \in Operations
      BY Locks DEF Operations
    <3>2. x \in Seq(Operations) /\ y \in Seq(Operations) /\ Len(x) = 7 /\ Len(y) = 7
      BY <3>1
    <3>3. \A i \in 1..7 : x[i] = y[i]
      BY <3>1
    <3> HIDE DEF x, y
    <3>4. x = y
      BY <3>2, <3>3, SeqEqual
    <3> QED BY <3>4 DEF x, y
  <2> HIDE DEF body
  <2> QED BY <2>3, <2>4, <2>5, BlockOfBlocks DEF Stop
<1>4. ASSUME NEW c \in Clients PROVE Block(DeleteSocket(c) \o <<<<"clear">>>>, ActivityRank)
  <2>1. Block(DeleteSocket(c), ActivityRank) /\ Block(<<<<"clear">>>>, ActivityRank)
    BY ActivityBlocks, Plain DEF Sockets
  <2> QED BY <2>1, BlockOfBlocks
<1> QED BY <1>1, <1>2, <1>3, <1>4
-----------------------------------------------------------------------------
(* What is done with the list of connections.                              *)

(* What a thread does only while it holds mConnectionMutex ...             *)
NeedsList(op) == op = Unlock(Connection) \/ op[1] \in {"delist", "update", "console", "clear"}

(* ... and after which a connection may be off the list.                   *)
Drops(op) == op = Unlock(Connection) \/ op[1] \in {"delist", "clear"}

Quiet(ops) == \A k \in DOMAIN ops : ~NeedsList(ops[k])

(* A thread that holds the mutexes H has mConnectionMutex when it comes to *)
(* operation i of s.                                                       *)
HasList(s, H, i) ==
  \/ Connection \in H /\ \A k \in DOMAIN s : k < i => s[k] # Unlock(Connection)
  \/ \E j \in DOMAIN s : /\ j < i /\ s[j] = Lock(Connection)
                         /\ \A k \in DOMAIN s : j < k /\ k < i => s[k] # Unlock(Connection)

Kept(s, H) == \A i \in DOMAIN s : NeedsList(s[i]) => HasList(s, H, i)

(* The connections that the game is to send to are on the list, and stay   *)
(* there: it has mConnectionMutex until it has sent.                       *)
Listed(s, L, H) ==
  \A i \in DOMAIN s : \A c \in Clients : s[i] \in {<<"send", c>>, <<"append", c>>} =>
    /\ c \in L /\ Connection \in H
    /\ \A k \in DOMAIN s : k < i => ~Drops(s[k])

(* What a thread that holds the mutexes H may have to do. *)
Proper(s, H) == s \in Seq(Operations) /\ Guarded(s, H) /\ Kept(s, H)

(* The inductive invariant. *)
IInv ==
  /\ holder \in [Mutexes -> Threads \cup {Nobody}] /\ tasks \in Seq(Sockets)
  /\ connections \subseteq Clients
  /\ script = [t \in Threads |-> script[t]]
  /\ \A t \in Threads : Proper(script[t], Held(t))
  /\ Listed(script["game"], connections, Held("game"))

(* mConnectionMutex is kept over what does not release it. *)
LEMMA KeptBefore ==
  ASSUME NEW O, NEW ops \in Seq(O), NEW s \in Seq(O), NEW H, Kept(ops, H), Kept(s, H),
         Connection \in H => \A k \in DOMAIN ops : ops[k] # Unlock(Connection)
  PROVE  Kept(ops \o s, H)
<1> DEFINE b == ops \o s
           n == Len(ops)
<1>1. /\ n \in Nat /\ Len(s) \in Nat /\ DOMAIN b = 1..(n + Len(s))
      /\ DOMAIN ops = 1..n /\ DOMAIN s = 1..Len(s)
      /\ \A i \in DOMAIN ops : b[i] = ops[i]
      /\ \A i \in DOMAIN s : b[n + i] = s[i]
  BY Concatenation
<1> HIDE DEF b, n
<1> SUFFICES ASSUME NEW i \in DOMAIN b, NeedsList(b[i]) PROVE HasList(b, H, i)
  BY DEF Kept, b
<1>2. CASE i <= n
  <2>1. i \in DOMAIN ops /\ HasList(ops, H, i)
    BY <1>1, <1>2 DEF Kept
  <2>2. \A k \in DOMAIN b : k < i => k \in DOMAIN ops /\ b[k] = ops[k]
    BY <1>1, <1>2
  <2>3. \A j \in DOMAIN ops : j \in DOMAIN b /\ b[j] = ops[j]
    BY <1>1
  <2> QED BY <2>1, <2>2, <2>3 DEF HasList
<1>3. CASE i > n
  <2>1. i - n \in DOMAIN s /\ n + (i - n) = i
    BY <1>1, <1>3
  <2>2. HasList(s, H, i - n)
    BY <1>1, <2>1 DEF Kept
  <2>3. ASSUME Connection \in H, \A k \in DOMAIN s : k < i - n => s[k] # Unlock(Connection),
               NEW k \in DOMAIN b, k < i
        PROVE  b[k] # Unlock(Connection)
    <3>1. CASE k <= n
      BY <1>1, <2>3, <3>1
    <3>2. CASE k > n
      <4>1. k - n \in DOMAIN s /\ n + (k - n) = k /\ k - n < i - n
        BY <1>1, <2>3, <3>2
      <4> QED BY <1>1, <2>3, <4>1
    <3> QED BY <1>1, <3>1, <3>2
  <2>4. ASSUME NEW j \in DOMAIN s, j < i - n, s[j] = Lock(Connection),
               \A k \in DOMAIN s : j < k /\ k < i - n => s[k] # Unlock(Connection)
        PROVE  /\ n + j \in DOMAIN b /\ n + j < i /\ b[n + j] = Lock(Connection)
               /\ \A k \in DOMAIN b : n + j < k /\ k < i => b[k] # Unlock(Connection)
    <3>1. n + j \in DOMAIN b /\ n + j < i /\ b[n + j] = Lock(Connection)
      BY <1>1, <2>4
    <3>2. ASSUME NEW k \in DOMAIN b, n + j < k, k < i PROVE b[k] # Unlock(Connection)
      <4>1. k - n \in DOMAIN s /\ n + (k - n) = k /\ j < k - n /\ k - n < i - n
        BY <1>1, <2>4, <3>2
      <4> QED BY <1>1, <2>4, <4>1
    <3> QED BY <3>1, <3>2
  <2> QED BY <2>2, <2>3, <2>4 DEF HasList
<1> QED BY <1>1, <1>2, <1>3

(* What a thread that has done its first operation has of the list. *)
LEMMA KeptRest ==
  ASSUME NEW O, NEW s \in Seq(O), s # <<>>, NEW H, NEW G, Kept(s, H),
         Connection \in H /\ s[1] # Unlock(Connection) => Connection \in G,
         s[1] = Lock(Connection) => Connection \in G
  PROVE  Kept(Tail(s), G)
<1> DEFINE r == Tail(s)
<1>1. /\ Len(s) \in Nat /\ Len(s) > 0 /\ DOMAIN s = 1..Len(s) /\ DOMAIN r = 1..(Len(s) - 1)
      /\ \A i \in DOMAIN r : r[i] = s[i + 1]
  BY Rest
<1> HIDE DEF r
<1> SUFFICES ASSUME NEW i \in DOMAIN r, NeedsList(r[i]) PROVE HasList(r, G, i)
  BY DEF Kept, r
<1>2. HasList(s, H, i + 1)
  BY <1>1 DEF Kept
<1>3. CASE Connection \in H /\ \A k \in DOMAIN s : k < i + 1 => s[k] # Unlock(Connection)
  <2>1. s[1] # Unlock(Connection)
    BY <1>1, <1>3
  <2>2. ASSUME NEW k \in DOMAIN r, k < i PROVE r[k] # Unlock(Connection)
    <3>1. k + 1 \in DOMAIN s /\ k + 1 < i + 1
      BY <1>1, <2>2
    <3> QED BY <1>1, <1>3, <3>1
  <2> QED BY <1>3, <2>1, <2>2 DEF HasList
<1>4. ASSUME NEW j \in DOMAIN s, j < i + 1, s[j] = Lock(Connection),
             \A k \in DOMAIN s : j < k /\ k < i + 1 => s[k] # Unlock(Connection)
      PROVE  HasList(r, G, i)
  <2>1. ASSUME NEW k \in DOMAIN r, j - 1 < k, k < i PROVE r[k] # Unlock(Connection)
    <3>1. k + 1 \in DOMAIN s /\ j < k + 1 /\ k + 1 < i + 1
      BY <1>1, <2>1
    <3> QED BY <1>1, <1>4, <3>1
  <2>2. CASE j = 1
    <3>1. \A k \in DOMAIN r : k < i => r[k] # Unlock(Connection)
      BY <1>1, <2>1, <2>2
    <3> QED BY <1>4, <2>2, <3>1 DEF HasList
  <2>3. CASE j # 1
    <3>1. j - 1 \in DOMAIN r /\ j - 1 < i /\ (j - 1) + 1 = j
      BY <1>1, <1>4, <2>3
    <3>2. r[j - 1] = Lock(Connection)
      BY <1>1, <1>4, <3>1
    <3> QED BY <2>1, <3>1, <3>2 DEF HasList
  <2> QED BY <2>2, <2>3
<1> QED BY <1>2, <1>3, <1>4 DEF HasList

(* The game goes on sending to connections on the list. *)
LEMMA ListedRest ==
  ASSUME NEW O, NEW s \in Seq(O), s # <<>>, NEW L, NEW H, NEW G, Listed(s, L, H),
         Connection \in H /\ s[1] # Unlock(Connection) => Connection \in G
  PROVE  Listed(Tail(s), L, G)
<1> DEFINE r == Tail(s)
<1>1. /\ Len(s) \in Nat /\ Len(s) > 0 /\ DOMAIN s = 1..Len(s) /\ DOMAIN r = 1..(Len(s) - 1)
      /\ \A i \in DOMAIN r : r[i] = s[i + 1]
  BY Rest
<1> HIDE DEF r
<1> SUFFICES ASSUME NEW i \in DOMAIN r, NEW c \in Clients, r[i] \in {<<"send", c>>, <<"append", c>>}
             PROVE  /\ c \in L /\ Connection \in G
                    /\ \A k \in DOMAIN r : k < i => ~Drops(r[k])
  BY DEF Listed, r
<1>2. i + 1 \in DOMAIN s /\ s[i + 1] \in {<<"send", c>>, <<"append", c>>}
  BY <1>1
<1>3. /\ c \in L /\ Connection \in H
      /\ \A k \in DOMAIN s : k < i + 1 => ~Drops(s[k])
  BY <1>2 DEF Listed
<1>4. s[1] # Unlock(Connection)
  BY <1>1, <1>3 DEF Drops
<1>5. ASSUME NEW k \in DOMAIN r, k < i PROVE ~Drops(r[k])
  <2>1. k + 1 \in DOMAIN s /\ k + 1 < i + 1
    BY <1>1, <1>5
  <2> QED BY <1>1, <1>3, <2>1
<1> QED BY <1>3, <1>4, <1>5

(* The game may send to connections on the list before it does something   *)
(* else, as long as it has the list.                                       *)
LEMMA ListedBefore ==
  ASSUME NEW O, NEW ops \in Seq(O), NEW s \in Seq(O), NEW L, NEW H,
         Listed(ops, L, H), Listed(s, L, H),
         \A k \in DOMAIN ops : ~Drops(ops[k])
  PROVE  Listed(ops \o s, L, H)
<1> DEFINE b == ops \o s
           n == Len(ops)
<1>1. /\ n \in Nat /\ Len(s) \in Nat /\ DOMAIN b = 1..(n + Len(s))
      /\ DOMAIN ops = 1..n /\ DOMAIN s = 1..Len(s)
      /\ \A i \in DOMAIN ops : b[i] = ops[i]
      /\ \A i \in DOMAIN s : b[n + i] = s[i]
  BY Concatenation
<1> HIDE DEF b, n
<1> SUFFICES ASSUME NEW i \in DOMAIN b, NEW c \in Clients, b[i] \in {<<"send", c>>, <<"append", c>>}
             PROVE  /\ c \in L /\ Connection \in H
                    /\ \A k \in DOMAIN b : k < i => ~Drops(b[k])
  BY DEF Listed, b
<1>2. CASE i <= n
  <2>1. \A k \in DOMAIN b : k <= i => k \in DOMAIN ops /\ b[k] = ops[k]
    BY <1>1, <1>2
  <2>2. i \in DOMAIN ops /\ ops[i] \in {<<"send", c>>, <<"append", c>>}
    BY <1>1, <1>2
  <2>3. c \in L /\ Connection \in H
    BY <2>2 DEF Listed
  <2>4. \A k \in DOMAIN b : k < i => ~Drops(b[k])
    <3> SUFFICES ASSUME NEW k \in DOMAIN b, k < i
                 PROVE  ~Drops(b[k])
      OBVIOUS
    <3>1. k \in DOMAIN ops /\ b[k] = ops[k]
      BY <1>1, <2>1
    <3> QED BY <3>1
  <2> QED BY <2>3, <2>4
<1>3. CASE i > n
  <2>1. i - n \in DOMAIN s /\ s[i - n] = b[i]
    <3>1. i - n \in DOMAIN s /\ n + (i - n) = i
      BY <1>1, <1>3
    <3> QED BY <1>1, <3>1
  <2>2. /\ c \in L /\ Connection \in H
        /\ \A k \in DOMAIN s : k < i - n => ~Drops(s[k])
    BY <2>1 DEF Listed
  <2>3. ASSUME NEW k \in DOMAIN b, k < i PROVE ~Drops(b[k])
    <3>1. CASE k <= n
      BY <1>1, <3>1
    <3>2. CASE k > n
      <4>1. k - n \in DOMAIN s /\ n + (k - n) = k /\ k - n < i - n
        BY <1>1, <2>3, <3>2
      <4> QED BY <1>1, <2>2, <4>1
    <3> QED BY <1>1, <3>1, <3>2
  <2> QED BY <2>2, <2>3
<1> QED BY <1>1, <1>2, <1>3
-----------------------------------------------------------------------------
(* Quiet blocks. *)

(* What is not done with the list is kept, and releases nothing of it.     *)
LEMMA QuietIsKept ==
  ASSUME NEW ops, Quiet(ops)
  PROVE  /\ \A H : Kept(ops, H)
         /\ \A k \in DOMAIN ops : ~Drops(ops[k])
<1>1. \A k \in DOMAIN ops : ~NeedsList(ops[k])
  BY DEF Quiet
<1>2. \A op : ~NeedsList(op) => ~Drops(op)
  BY DEF NeedsList, Drops
<1> QED BY <1>1, <1>2 DEF Kept

(* Quiet blocks that follow each other are quiet. *)
LEMMA QuietBlocks ==
  ASSUME NEW O, NEW a \in Seq(O), NEW b \in Seq(O), Quiet(a), Quiet(b)
  PROVE  Quiet(a \o b)
<1>1. /\ Len(a) \in Nat /\ Len(b) \in Nat
      /\ DOMAIN (a \o b) = 1..(Len(a) + Len(b))
      /\ DOMAIN a = 1..Len(a) /\ DOMAIN b = 1..Len(b)
      /\ \A i \in DOMAIN a : (a \o b)[i] = a[i]
      /\ \A i \in DOMAIN b : (a \o b)[Len(a) + i] = b[i]
  BY Concatenation
<1> SUFFICES ASSUME NEW k \in DOMAIN (a \o b) PROVE ~NeedsList((a \o b)[k])
  BY DEF Quiet
<1>2. CASE k <= Len(a)
  BY <1>1, <1>2 DEF Quiet
<1>3. CASE k > Len(a)
  <2>1. k - Len(a) \in DOMAIN b /\ Len(a) + (k - Len(a)) = k
    BY <1>1, <1>3
  <2> QED BY <1>1, <2>1 DEF Quiet
<1> QED BY <1>1, <1>2, <1>3

(* The functions of the code that do nothing with the list. *)
LEMMA QuietCode ==
  /\ Quiet(<<>>)
  /\ \A s \in Sockets : Quiet(PostActivity(s)) /\ Quiet(SigIOAction(s)) /\ Quiet(DeleteSocket(s))
  /\ \A c \in Clients : /\ Quiet(Read(c)) /\ Quiet(Send(c)) /\ Quiet(SendConnected(c))
                        /\ Quiet(PolloutReceived(c))
                        /\ \A answered \in BOOLEAN : Quiet(DataRead(c, answered))
<1>0. Quiet(<<>>)
  BY DEF Quiet
<1>1. /\ ~NeedsList(Lock(Activity)) /\ ~NeedsList(Unlock(Activity)) /\ ~NeedsList(UnlockAndReturn)
      /\ \A c : ~NeedsList(Lock(SendBuffer(c))) /\ ~NeedsList(Unlock(SendBuffer(c)))
  BY DEF NeedsList, Lock, Unlock, UnlockAndReturn, Activity, SendBuffer, Connection
<1>2. \A x : /\ ~NeedsList(<<"push", x>>) /\ ~NeedsList(<<"erase", x>>)
             /\ ~NeedsList(<<"append", x>>) /\ ~NeedsList(<<"want", x>>)
             /\ ~NeedsList(<<"receive", x>>) /\ ~NeedsList(<<"sate", x>>)
             /\ ~NeedsList(<<"transmit", x>>) /\ ~NeedsList(<<"send", x>>)
  BY DEF NeedsList, Unlock
<1>3. \A a, b, c : ~NeedsList(a) /\ ~NeedsList(b) /\ ~NeedsList(c) => Quiet(<<a, b, c>>)
  BY DEF Quiet
<1>4. \A a, b : ~NeedsList(a) /\ ~NeedsList(b) => Quiet(<<a, b>>)
  BY DEF Quiet
<1>5. \A a : ~NeedsList(a) => Quiet(<<a>>)
  BY DEF Quiet
<1>6. ASSUME NEW s PROVE Quiet(PostActivity(s)) /\ Quiet(SigIOAction(s)) /\ Quiet(DeleteSocket(s))
  BY <1>1, <1>2, <1>3 DEF PostActivity, SigIOAction, DeleteSocket
<1>7. ASSUME NEW c \in Clients
      PROVE  /\ Quiet(Read(c)) /\ Quiet(Send(c)) /\ Quiet(SendConnected(c))
             /\ Quiet(PolloutReceived(c))
             /\ \A answered \in BOOLEAN : Quiet(DataRead(c, answered))
  <2> DEFINE ReadPart == <<<<"want", c>>>>
             SendPart == <<Lock(SendBuffer(c)), <<"append", c>>, Unlock(SendBuffer(c))>>
             DataPart == <<<<"receive", c>>, <<"sate", c>>>>
             Reply(answered) == IF answered THEN Send(c) ELSE <<>>
  <2>1. /\ Block(PostActivity(c), ActivityRank) /\ Block(Read(c), ActivityRank)
        /\ Block(Send(c), BufferRank)
    BY ActivityBlocks, SendBlocks DEF Sockets
  <2>2. /\ ReadPart \in Seq(Operations) /\ SendPart \in Seq(Operations)
        /\ DataPart \in Seq(Operations)
    BY Locks DEF Operations
  <2>3. PostActivity(c) \in Seq(Operations) /\ Read(c) \in Seq(Operations) /\ Send(c) \in Seq(Operations)
    BY <2>1 DEF Block
  <2>4. Quiet(ReadPart) /\ Quiet(SendPart) /\ Quiet(DataPart) /\ Quiet(Send(c))
        /\ Quiet(PostActivity(c)) /\ Quiet(PolloutReceived(c))
    BY <1>1, <1>2, <1>3, <1>4, <1>5, <1>6 DEF Send, PolloutReceived
  <2>5. Quiet(ReadPart \o PostActivity(c)) /\ Quiet(SendPart \o PostActivity(c))
    <3> HIDE DEF ReadPart, SendPart
    <3> QED BY <2>2, <2>3, <2>4, QuietBlocks
  <2>6. Quiet(Read(c)) /\ Quiet(SendConnected(c))
    BY <2>5 DEF Read, SendConnected
  <2>7. ASSUME NEW answered \in BOOLEAN PROVE Quiet(DataRead(c, answered))
    <3>1. Reply(answered) \in Seq(Operations) /\ Quiet(Reply(answered))
      BY <1>0, <2>3, <2>4
    <3> HIDE DEF DataPart, Reply
    <3>2. DataPart \o Reply(answered) \in Seq(Operations) /\ Quiet(DataPart \o Reply(answered))
      BY <2>2, <2>4, <3>1, QuietBlocks, Concatenation
    <3>3. Quiet((DataPart \o Reply(answered)) \o Read(c))
      BY <2>3, <2>6, <3>2, QuietBlocks
    <3> QED BY <3>3 DEF DataRead, DataPart, Reply
  <2> QED BY <2>4, <2>6, <2>7
<1> QED BY <1>0, <1>6, <1>7

(* What is done between taking mConnectionMutex and its release is done    *)
(* with the list, before and after which other things may be done.         *)
LEMMA KeptSection ==
  ASSUME NEW body \in Seq(Operations), \A k \in DOMAIN body : body[k] # Unlock(Connection),
         NEW H, Connection \notin H
  PROVE  Kept(<<Lock(Connection)>> \o body \o <<Unlock(Connection)>>, H)
<1> DEFINE s == <<Lock(Connection)>> \o body \o <<Unlock(Connection)>>
<1>1. Lock(Connection) \in Operations /\ Unlock(Connection) \in Operations
  BY Locks
<1>2. /\ Len(body) \in Nat /\ DOMAIN s = 1..(Len(body) + 2) /\ DOMAIN body = 1..Len(body)
      /\ s[1] = Lock(Connection) /\ \A k \in DOMAIN body : s[k + 1] = body[k]
  BY <1>1
<1> HIDE DEF s
<1> SUFFICES ASSUME NEW i \in DOMAIN s, NeedsList(s[i]) PROVE HasList(s, H, i)
  BY DEF Kept, s
<1>3. i > 1
  <2>1. ~NeedsList(Lock(Connection))
    BY DEF NeedsList, Lock, Unlock
  <2> QED BY <1>2, <2>1
<1>4. ASSUME NEW k \in DOMAIN s, 1 < k, k < i PROVE s[k] # Unlock(Connection)
  <2>1. k - 1 \in DOMAIN body /\ (k - 1) + 1 = k
    BY <1>2, <1>4
  <2> QED BY <1>2, <2>1
<1>5. 1 \in DOMAIN s /\ 1 < i /\ s[1] = Lock(Connection)
  BY <1>2, <1>3
<1> QED BY <1>4, <1>5 DEF HasList

(* The functions of the code that take and release mConnectionMutex. *)
LEMMA KeptCode ==
  ASSUME NEW H, Connection \notin H
  PROVE  /\ \A c \in Clients : Kept(ConnectionAccepted(c), H) /\ Kept(Disconnected(c), H)
         /\ Kept(UpdateClients, H) /\ \A c \in Clients : Kept(ConsoleUpdate(c), H)
         /\ Kept(Stop, H)
<1>0. /\ Lock(Connection) \in Operations /\ Unlock(Connection) \in Operations
      /\ Lock(Activity) \in Operations /\ Unlock(Activity) \in Operations
      /\ Unlock(Activity) # Unlock(Connection) /\ \A m, n : Lock(m) # Unlock(n)
      /\ \A k, x : k # "unlock" => <<k, x>> # Unlock(Connection)
      /\ \A k : <<k>> # Unlock(Connection)
  BY Locks DEF Lock, Unlock, Activity, Connection
<1>1. ASSUME NEW op \in Operations, op # Unlock(Connection)
      PROVE  Kept(<<Lock(Connection), op, Unlock(Connection)>>, H)
  <2> DEFINE body == <<op>>
  <2>1. body \in Seq(Operations) /\ \A k \in DOMAIN body : body[k] # Unlock(Connection)
    BY <1>1
  <2> HIDE DEF body
  <2>2. Kept(<<Lock(Connection)>> \o body \o <<Unlock(Connection)>>, H)
    BY <2>1, KeptSection
  <2> QED BY <2>2, ThreeInARow DEF body
<1>2. ASSUME NEW c \in Clients PROVE Kept(ConsoleUpdate(c), H)
  <2>1. <<"console", c>> \in Operations /\ <<"console", c>> # Unlock(Connection)
    BY <1>0 DEF Operations
  <2> QED BY <1>1, <2>1 DEF ConsoleUpdate
<1>3. Kept(UpdateClients, H)
  <2>1. <<"update">> \in Operations /\ <<"update">> # Unlock(Connection)
    BY <1>0 DEF Operations
  <2> QED BY <1>1, <2>1 DEF UpdateClients
<1>4. ASSUME NEW a, NEW b, a \in Seq(Operations), b \in Seq(Operations), Quiet(a), Kept(b, H)
      PROVE  Kept(a \o b, H)
  <2>1. Kept(a, H)
    BY <1>4, QuietIsKept
  <2> QED BY <1>4, <2>1, KeptBefore
<1>5. ASSUME NEW c \in Clients PROVE Kept(ConnectionAccepted(c), H)
  <2> DEFINE section == <<Lock(Connection), <<"enlist", c>>, Unlock(Connection)>>
  <2>1. <<"enlist", c>> \in Operations /\ <<"enlist", c>> # Unlock(Connection)
    BY <1>0 DEF Operations
  <2>2. Kept(section, H) /\ section \in Seq(Operations)
    BY <1>0, <1>1, <2>1
  <2>3. Send(c) \in Seq(Operations) /\ Read(c) \in Seq(Operations) /\ Quiet(Send(c)) /\ Quiet(Read(c))
    BY QuietCode, SendBlocks, ActivityBlocks DEF Block
  <2> HIDE DEF section
  <2>4. Quiet(Send(c) \o Read(c)) /\ Send(c) \o Read(c) \in Seq(Operations)
    BY <2>3, QuietBlocks, Concatenation
  <2>5. Kept((Send(c) \o Read(c)) \o section, H)
    BY <1>4, <2>2, <2>4
  <2> QED BY <2>5 DEF ConnectionAccepted, section
<1>6. ASSUME NEW c \in Clients PROVE Kept(Disconnected(c), H)
  <2> DEFINE first == <<<<"erase", c>>>>
             body == <<<<"delist", c>>>> \o DeleteSocket(c)
             section == <<Lock(Connection)>> \o body \o <<Unlock(Connection)>>
  <2>1. /\ first \in Seq(Operations) /\ Quiet(first)
        /\ <<<<"delist", c>>>> \in Seq(Operations)
        /\ DeleteSocket(c) \in Seq(Operations) /\ Quiet(DeleteSocket(c))
    BY QuietCode, ActivityBlocks DEF Block, Operations, Quiet, NeedsList, Unlock, Sockets
  <2>2. body \in Seq(Operations) /\ \A k \in DOMAIN body : body[k] # Unlock(Connection)
    BY <1>0, <2>1, QuietIsKept DEF Drops
  <2>3. Disconnected(c) = first \o section
    BY DEF Disconnected, DeleteSocket
  <2> HIDE DEF body
  <2>4. Kept(section, H) /\ section \in Seq(Operations)
    BY <1>0, <2>2, KeptSection
  <2> HIDE DEF first, section
  <2> QED BY <1>4, <2>1, <2>3, <2>4
<1>7. Kept(Stop, H)
  <2> DEFINE body == <<<<"clear">>, Lock(Activity), <<"shutdown">>, Unlock(Activity), <<"join">>>>
             section == <<Lock(Connection)>> \o body \o <<Unlock(Connection)>>
  <2>1. /\ <<"clear">> \in Operations /\ <<"shutdown">> \in Operations /\ <<"join">> \in Operations
    BY DEF Operations
  <2>2. body \in Seq(Operations) /\ \A k \in DOMAIN body : body[k] # Unlock(Connection)
    BY <1>0, <2>1
  <2>3. section = <<Lock(Connection), <<"clear">>, Lock(Activity), <<"shutdown">>,
                    Unlock(Activity), <<"join">>, Unlock(Connection)>>
    <3> DEFINE y == <<Lock(Connection), <<"clear">>, Lock(Activity), <<"shutdown">>,
                      Unlock(Activity), <<"join">>, Unlock(Connection)>>
    <3>1. section \in Seq(Operations) /\ y \in Seq(Operations) /\ Len(section) = 7 /\ Len(y) = 7
      BY <1>0, <2>1
    <3>2. \A i \in 1..7 : section[i] = y[i]
      BY <1>0, <2>1
    <3> HIDE DEF section, y
    <3>3. section = y
      BY <3>1, <3>2, SeqEqual
    <3> QED BY <3>3 DEF y
  <2> HIDE DEF body
  <2>4. Kept(section, H) /\ section \in Seq(Operations)
    BY <1>0, <2>2, KeptSection
  <2>5. DeleteSocket(Listener) \in Seq(Operations) /\ Quiet(DeleteSocket(Listener))
    BY QuietCode, ActivityBlocks DEF Block, Sockets
  <2> HIDE DEF section
  <2> QED BY <1>4, <2>3, <2>4, <2>5 DEF Stop
<1> QED BY <1>2, <1>3, <1>5, <1>6, <1>7

(* What the game is to do when it begins sends nothing by itself; what it  *)
(* sends to is on the list.                                                *)
LEMMA ListedCode ==
  ASSUME NEW L, NEW H
  PROVE  /\ Listed(<<>>, L, H) /\ Listed(UpdateClients, L, H) /\ Listed(Stop, L, H)
         /\ \A c \in Clients : /\ Listed(ConsoleUpdate(c), L, H)
                               /\ Listed(DeleteSocket(c) \o <<<<"clear">>>>, L, H)
         /\ \A c \in Clients \cap L :
              Connection \in H => Listed(Send(c), L, H) /\ Listed(SendConnected(c), L, H)
<1>1. \A s : (\A i \in DOMAIN s : s[i][1] \notin {"send", "append"}) => Listed(s, L, H)
  BY DEF Listed
<1>2. Listed(<<>>, L, H) /\ Listed(UpdateClients, L, H)
      /\ \A c \in Clients : Listed(ConsoleUpdate(c), L, H)
  BY <1>1 DEF UpdateClients, ConsoleUpdate, Lock, Unlock
<1>3. ASSUME NEW a \in Seq(Operations), NEW b \in Seq(Operations), Quiet(a),
             Listed(a, L, H), Listed(b, L, H)
      PROVE  Listed(a \o b, L, H)
  BY <1>3, QuietIsKept, ListedBefore
<1>4. ASSUME NEW s \in Sockets
      PROVE  /\ DeleteSocket(s) \in Seq(Operations) /\ Quiet(DeleteSocket(s))
             /\ Listed(DeleteSocket(s), L, H)
             /\ PostActivity(s) \in Seq(Operations) /\ Listed(PostActivity(s), L, H)
  <2>1. DeleteSocket(s) \in Seq(Operations) /\ Quiet(DeleteSocket(s))
        /\ PostActivity(s) \in Seq(Operations)
    BY QuietCode, ActivityBlocks DEF Block
  <2> QED BY <1>1, <2>1 DEF DeleteSocket, PostActivity, Lock, Unlock
<1>5. Listed(Stop, L, H)
  <2> DEFINE b == <<Lock(Connection), <<"clear">>,
                    Lock(Activity), <<"shutdown">>, Unlock(Activity), <<"join">>,
                    Unlock(Connection)>>
  <2>1. b \in Seq(Operations)
    BY Locks DEF Operations
  <2>2. Listed(b, L, H)
    BY <1>1 DEF Lock, Unlock
  <2> HIDE DEF b
  <2>3. Listed(DeleteSocket(Listener) \o b, L, H)
    BY <1>3, <1>4, <2>1, <2>2 DEF Sockets
  <2> QED BY <2>3 DEF Stop, b
<1>6. ASSUME NEW c \in Clients PROVE Listed(DeleteSocket(c) \o <<<<"clear">>>>, L, H)
  <2> DEFINE b == <<<<"clear">>>>
  <2>1. b \in Seq(Operations) /\ Listed(b, L, H)
    BY <1>1 DEF Operations
  <2> HIDE DEF b
  <2>2. Listed(DeleteSocket(c) \o b, L, H)
    BY <1>3, <1>4, <2>1 DEF Sockets
  <2> QED BY <2>2 DEF b
<1>7. ASSUME NEW c \in Clients, c \in L, Connection \in H
      PROVE  Listed(Send(c), L, H) /\ Listed(SendConnected(c), L, H)
  <2>1. Listed(Send(c), L, H)
    BY <1>7 DEF Listed, Send
  <2> DEFINE a == <<Lock(SendBuffer(c)), <<"append", c>>, Unlock(SendBuffer(c))>>
  <2>2. a \in Seq(Operations)
    BY Locks DEF Operations
  <2>3. Listed(a, L, H)
    BY <1>7 DEF Listed, Drops, Lock, Unlock, SendBuffer, Connection
  <2>4. Quiet(a)
    BY DEF Quiet, NeedsList, Lock, Unlock, SendBuffer, Connection
  <2> HIDE DEF a
  <2>5. Listed(a \o PostActivity(c), L, H)
    BY <1>3, <1>4, <2>2, <2>3, <2>4 DEF Sockets
  <2> QED BY <2>1, <2>5 DEF SendConnected, a
<1> QED BY <1>2, <1>5, <1>6, <1>7
-----------------------------------------------------------------------------
(* What a thread may have to do, step by step.                             *)

(* A thread may hold less, but has to have the list if it had it.          *)
LEMMA ProperLess ==
  ASSUME NEW s, NEW H, NEW G, Proper(s, H), G \subseteq H, Connection \in H => Connection \in G
  PROVE  Proper(s, G)
BY DEF Proper, Guarded, Kept, HasList

(* What the first operation of a thread tells of the mutexes that it has.  *)
LEMMA FirstOperation ==
  ASSUME NEW s, NEW H, H \subseteq Mutexes, Proper(s, H), s # <<>>
  PROVE  /\ s[1] \in Operations /\ 1 \in DOMAIN s
         /\ \A m \in H : Closes(s[1], m) \/ Above(s[1], m)
         /\ NeedsList(s[1]) => Connection \in H
<1>1. s \in Seq(Operations) /\ Guarded(s, H) /\ Kept(s, H)
  BY DEF Proper
<1>2. Len(s) \in Nat /\ Len(s) > 0 /\ DOMAIN s = 1..Len(s) /\ 1 \in DOMAIN s /\ s[1] \in Operations
  BY <1>1
<1>3. ASSUME NEW m \in H PROVE Closes(s[1], m) \/ Above(s[1], m)
  <2>1. PICK j \in DOMAIN s : /\ j > 0 /\ Closes(s[j], m)
                              /\ \A k \in DOMAIN s : 0 < k /\ k < j => Above(s[k], m)
    BY <1>1 DEF Guarded, Nested
  <2> QED BY <1>2, <2>1
<1>4. NeedsList(s[1]) => Connection \in H
  BY <1>1, <1>2 DEF Kept, HasList
<1> QED BY <1>2, <1>3, <1>4

(* A thread that has nothing to do holds nothing.                          *)
LEMMA NothingIsHeld ==
  ASSUME NEW H, Proper(<<>>, H)
  PROVE  H = {}
BY DEF Proper, Guarded, Nested

(* An operation that takes and releases nothing by itself is done. *)
LEMMA ProperRest ==
  ASSUME NEW s, NEW H, H \subseteq Mutexes, Proper(s, H), s # <<>>,
         s[1][1] \notin {"lock", "unlock", "pick", "take", "ended"}
  PROVE  Proper(Tail(s), H)
<1>1. s \in Seq(Operations) /\ Guarded(s, H) /\ Kept(s, H)
  BY DEF Proper
<1>2. \A m : ~Closes(s[1], m) /\ s[1] # Lock(m) /\ s[1] # Unlock(m)
  BY DEF Closes, Lock, Unlock
<1>3. Tail(s) \in Seq(Operations)
  BY <1>1, Rest
<1>4. Guarded(Tail(s), H)
  BY <1>1, <1>2, GuardedRest
<1>5. Kept(Tail(s), H)
  BY <1>1, <1>2, KeptRest
<1> QED BY <1>3, <1>4, <1>5 DEF Proper

(* A thread may do a block first, above all that it holds.                 *)
LEMMA ProperBefore ==
  ASSUME NEW s, NEW H, H \subseteq Mutexes, Proper(s, H), NEW ops, NEW r \in Int, Block(ops, r),
         \A m \in H : Rank(m) < r, Kept(ops, H),
         Connection \in H => \A k \in DOMAIN ops : ops[k] # Unlock(Connection)
  PROVE  Proper(ops \o s, H)
<1>1. /\ s \in Seq(Operations) /\ Guarded(s, H) /\ Kept(s, H)
      /\ ops \in Seq(Operations) /\ Guarded(ops, {}) /\ \A k \in DOMAIN ops : Reach(ops[k]) >= r
  BY DEF Proper, Block
<1>2. \A k \in DOMAIN ops : \A m \in H : Above(ops[k], m)
  BY <1>1, Reaches DEF Above
<1>3. Guarded(ops \o s, H)
  BY <1>1, <1>2, GuardedBefore
<1>4. Kept(ops \o s, H)
  BY <1>1, KeptBefore
<1>5. ops \o s \in Seq(Operations)
  BY <1>1, Concatenation
<1> QED BY <1>3, <1>4, <1>5 DEF Proper

(* An operation is replaced by a block that reaches no more.               *)
LEMMA Expansion ==
  ASSUME NEW s, NEW H, H \subseteq Mutexes, Proper(s, H), s # <<>>,
         s[1][1] \notin {"lock", "unlock", "pick", "take", "ended"},
         NEW ops, NEW r \in Int, Block(ops, r), Reach(s[1]) <= r, Kept(ops, H),
         Connection \in H => \A k \in DOMAIN ops : ops[k] # Unlock(Connection)
  PROVE  Proper(ops \o Tail(s), H)
<1>1. \A m \in H : Rank(m) < r
  <2>1. \A m : ~Closes(s[1], m) /\ s[1] # Lock(m)
    BY DEF Closes, Lock
  <2>2. \A m \in H : Rank(m) < Reach(s[1])
    BY <2>1, FirstOperation DEF Above
  <2> QED BY <2>2, Reaches
<1> QED BY <1>1, ProperRest, ProperBefore

(* Most blocks are quiet. *)
LEMMA QuietExpansion ==
  ASSUME NEW s, NEW H, H \subseteq Mutexes, Proper(s, H), s # <<>>,
         s[1][1] \notin {"lock", "unlock", "pick", "take", "ended"},
         NEW ops, NEW r \in Int, Block(ops, r), Reach(s[1]) <= r, Quiet(ops)
  PROVE  Proper(ops \o Tail(s), H)
BY QuietIsKept, Expansion DEF Drops

(* A thread that takes a mutex holds it. *)
LEMMA AcquireIsProper ==
  ASSUME NEW s, NEW H, H \subseteq Mutexes, Proper(s, H), s # <<>>,
         NEW m \in Mutexes, s[1] = Lock(m), m \notin H
  PROVE  Proper(Tail(s), H \cup {m})
<1>1. s \in Seq(Operations) /\ Guarded(s, H) /\ Kept(s, H)
  BY DEF Proper
<1>2. \A n : ~Closes(s[1], n) /\ s[1] # Unlock(n) /\ (s[1] = Lock(n) => n = m)
  BY DEF Closes, Lock, Unlock
<1>3. Tail(s) \in Seq(Operations)
  BY <1>1, Rest
<1> DEFINE G == H \cup {m}
<1>4. /\ G \subseteq Mutexes /\ \A n \in G : n \in H \/ n = m
      /\ Connection \in H => Connection \in G
      /\ Connection = m => Connection \in G
  OBVIOUS
<1> HIDE DEF G
<1>5. Guarded(Tail(s), G)
  BY <1>1, <1>2, <1>4, GuardedRest
<1>6. Kept(Tail(s), G)
  BY <1>1, <1>2, <1>4, KeptRest
<1> QED BY <1>3, <1>5, <1>6 DEF Proper, G

(* A thread that releases a mutex does not hold it. *)
LEMMA ReleaseIsProper ==
  ASSUME NEW s, NEW H, H \subseteq Mutexes, Proper(s, H), s # <<>>, s[1][1] = "unlock"
  PROVE  Proper(Tail(s), H \ {s[1][2]})
<1>1. s \in Seq(Operations) /\ Guarded(s, H) /\ Kept(s, H)
  BY DEF Proper
<1>2. \A n : (Closes(s[1], n) <=> n = s[1][2]) /\ s[1] # Lock(n)
  BY DEF Closes, Lock
<1>3. Tail(s) \in Seq(Operations)
  BY <1>1, Rest
<1> DEFINE G == H \ {s[1][2]}
<1>4. s[1][2] = Connection => s[1] = Unlock(Connection)
  BY FirstOperation DEF Operations, UnlockAndReturn, Unlock, Activity, Connection
<1>5. /\ G \subseteq Mutexes /\ \A n \in G : n \in H /\ ~Closes(s[1], n)
      /\ Connection \in H /\ s[1] # Unlock(Connection) => Connection \in G
  BY <1>2, <1>4
<1> HIDE DEF G
<1>6. Guarded(Tail(s), G)
  BY <1>1, <1>5, GuardedRest
<1>7. Kept(Tail(s), G)
  BY <1>1, <1>2, <1>5, KeptRest
<1> QED BY <1>3, <1>6, <1>7 DEF Proper, G
-----------------------------------------------------------------------------
(* Steps. *)

(* What the other thread holds is its own.                                 *)
LEMMA HeldApart ==
  ASSUME NEW t \in Threads, NEW u \in Threads, t # u
  PROVE  Held(t) \cap Held(u) = {} /\ Held(t) \subseteq Mutexes
BY DEF Held

(* A step of thread t that does not take a mutex.                          *)
LEMMA StepOfThread ==
  ASSUME IInv, NEW t \in Threads, NEW rest,
         script' = [script EXCEPT ![t] = rest],
         holder' \in [Mutexes -> Threads \cup {Nobody}],
         \A u \in Threads \ {t} : Held(u)' = Held(u),
         Proper(rest, Held(t)'),
         tasks' \in Seq(Sockets), connections' \subseteq Clients,
         t = "game" => Listed(rest, connections', Held("game")'),
         t = "worker" /\ Connection \notin Held("worker") => connections \subseteq connections'
  PROVE  IInv'
<1>1. /\ script' = [u \in Threads |-> script'[u]]
      /\ script'[t] = rest /\ \A u \in Threads \ {t} : script'[u] = script[u]
  BY DEF IInv
<1>2. ASSUME NEW u \in Threads PROVE Proper(script'[u], Held(u)')
  <2>1. CASE u = t
    BY <1>1, <2>1
  <2>2. CASE u # t
    BY <1>1, <2>2 DEF IInv
  <2> QED BY <2>1, <2>2
<1>3. Listed(script'["game"], connections', Held("game")')
  <2>1. CASE t = "game"
    BY <1>1, <2>1
  <2>2. CASE t = "worker"
    <3>1. script'["game"] = script["game"] /\ Held("game")' = Held("game")
          /\ Listed(script["game"], connections, Held("game"))
      BY <1>1, <2>2 DEF IInv, Threads
    <3>2. CASE Connection \in Held("worker")
      <4>1. Connection \notin Held("game")
        BY <3>2, HeldApart DEF Threads
      <4> QED BY <3>1, <4>1 DEF Listed
    <3>3. CASE Connection \notin Held("worker")
      <4>1. connections \subseteq connections'
        BY <2>2, <3>3
      <4> QED BY <3>1, <4>1 DEF Listed
    <3> QED BY <3>2, <3>3
  <2> QED BY <2>1, <2>2 DEF Threads
<1> QED BY <1>1, <1>2, <1>3 DEF IInv

(* A mutex that is to be released next is released.                        *)
LEMMA ReleaseStep ==
  ASSUME IInv, NEW t \in Threads, NEW rest, rest # <<>>, rest[1][1] = "unlock",
         script' = [script EXCEPT ![t] = Tail(rest)],
         holder' = [holder EXCEPT ![rest[1][2]] = Nobody],
         Proper(rest, Held(t)),
         tasks' \in Seq(Sockets), connections' \subseteq Clients,
         t = "game" => Listed(rest, connections', Held("game")),
         t = "worker" /\ Connection \notin Held("worker") => connections \subseteq connections'
  PROVE  IInv'
<1>0. Held(t) \subseteq Mutexes /\ holder \in [Mutexes -> Threads \cup {Nobody}]
  BY DEF Held, IInv
<1> DEFINE m == rest[1][2]
<1>1. script' = [script EXCEPT ![t] = Tail(rest)] /\ holder' = [holder EXCEPT ![m] = Nobody]
  OBVIOUS
<1>2. m \in Mutexes /\ rest[1] \in Operations
  <2>1. rest[1] \in Operations
    BY <1>0, FirstOperation
  <2> QED BY <2>1, Locks DEF Operations, UnlockAndReturn
<1>3. Proper(Tail(rest), Held(t) \ {m}) /\ rest \in Seq(Operations)
  BY <1>0, ReleaseIsProper DEF Proper
<1>4. m = Connection => rest[1] = Unlock(Connection) /\ Connection \in Held(t)
  <2>1. m = Connection => rest[1] = Unlock(Connection)
    BY <1>2 DEF Operations, UnlockAndReturn, Unlock, Activity, Connection
  <2>2. rest[1] = Unlock(Connection) => Connection \in Held(t)
    BY <1>0, FirstOperation DEF NeedsList
  <2> QED BY <2>1, <2>2
<1> HIDE DEF m
<1>5. \A u \in Threads : Held(u)' = Held(u) \ {m}
  BY <1>0, <1>1, <1>2, ServerAssumption DEF Held
<1>6. holder' \in [Mutexes -> Threads \cup {Nobody}]
  BY <1>0, <1>1
<1>7. ASSUME t = "game" PROVE Listed(Tail(rest), connections', Held("game")')
  <2>1. Connection \in Held("game") /\ rest[1] # Unlock(Connection) => Connection \in Held("game")'
    BY <1>4, <1>5, <1>7
  <2>2. Listed(rest, connections', Held("game"))
    BY <1>0, <1>7
  <2> DEFINE G == Held("game")'
             L == connections'
  <2>3. Connection \in Held("game") /\ rest[1] # Unlock(Connection) => Connection \in G
    BY <2>1
  <2>4. Listed(rest, L, Held("game")) /\ rest # <<>>
    BY <2>2
  <2> HIDE DEF G, L
  <2>5. Listed(Tail(rest), L, G)
    BY <1>3, <2>3, <2>4, ListedRest
  <2> QED BY <2>5 DEF G, L
<1>8. /\ script' = [u \in Threads |-> script'[u]]
      /\ script'[t] = Tail(rest) /\ \A u \in Threads \ {t} : script'[u] = script[u]
  BY <1>1 DEF IInv
<1>9. ASSUME NEW u \in Threads PROVE Proper(script'[u], Held(u)')
  <2>1. CASE u = t
    BY <1>3, <1>5, <1>8, <2>1
  <2>2. CASE u # t
    <3>1. Connection \in Held(u) => Connection \in Held(u) \ {m}
      BY <1>4, <2>2, HeldApart
    <3>2. Proper(script[u], Held(u) \ {m})
      BY <3>1, ProperLess DEF IInv
    <3> QED BY <1>5, <1>8, <2>2, <3>2
  <2> QED BY <2>1, <2>2
<1>10. Listed(script'["game"], connections', Held("game")')
  <2>1. CASE t = "game"
    BY <1>7, <1>8, <2>1
  <2>2. CASE t = "worker"
    <3>1. script'["game"] = script["game"] /\ Listed(script["game"], connections, Held("game"))
          /\ Held("game")' = Held("game") \ {m}
      BY <1>5, <1>8, <2>2 DEF IInv, Threads
    <3>2. CASE Connection \in Held("worker")
      <4>1. Connection \notin Held("game")
        BY <3>2, HeldApart DEF Threads
      <4> QED BY <3>1, <4>1 DEF Listed
    <3>3. CASE Connection \notin Held("worker")
      <4>1. connections \subseteq connections' /\ m # Connection
        BY <1>4, <2>2, <3>3
      <4> QED BY <3>1, <4>1 DEF Listed
    <3> QED BY <3>2, <3>3
  <2> QED BY <2>1, <2>2 DEF Threads
<1> QED BY <1>6, <1>8, <1>9, <1>10 DEF IInv

(* Then: the operations come first, and what is to be released at once is. *)
LEMMA ThenStep ==
  ASSUME IInv, NEW t \in Threads, NEW ops, Then(t, ops),
         Proper(ops \o Tail(script[t]), Held(t)),
         tasks' \in Seq(Sockets), connections' \subseteq Clients,
         t = "game" => Listed(ops \o Tail(script[t]), connections', Held("game")),
         t = "worker" /\ Connection \notin Held("worker") => connections \subseteq connections'
  PROVE  IInv'
<1> DEFINE rest == ops \o Tail(script[t])
           releases == rest # <<>> /\ rest[1][1] = "unlock"
<1>1. /\ script' = [script EXCEPT ![t] = IF releases THEN Tail(rest) ELSE rest]
      /\ holder' = IF releases THEN [holder EXCEPT ![rest[1][2]] = Nobody] ELSE holder
  BY DEF Then
<1>2. Proper(rest, Held(t)) /\ (t = "game" => Listed(rest, connections', Held("game")))
      /\ Held(t) \subseteq Mutexes /\ holder \in [Mutexes -> Threads \cup {Nobody}]
  BY DEF Held, IInv
<1> HIDE DEF rest
<1>3. CASE ~releases
  <2>1. script' = [script EXCEPT ![t] = rest] /\ holder' = holder
    BY <1>1, <1>3
  <2>2. \A u \in Threads : Held(u)' = Held(u)
    BY <2>1 DEF Held
  <2> QED BY <1>2, <2>1, <2>2, StepOfThread
<1>4. CASE releases
  <2>1. /\ script' = [script EXCEPT ![t] = Tail(rest)]
        /\ holder' = [holder EXCEPT ![rest[1][2]] = Nobody]
    BY <1>1, <1>4
  <2> QED BY <1>2, <1>4, <2>1, ReleaseStep
<1> QED BY <1>3, <1>4

(* Taking a mutex. *)
LEMMA AcquireStep ==
  ASSUME IInv, NEW t \in Threads, Acquire(t)
  PROVE  IInv'
<1> DEFINE m == Subject(t)
<1>1. /\ script[t] # <<>> /\ script[t][1][1] = "lock" /\ m = script[t][1][2] /\ holder[m] = Nobody
      /\ holder' = [holder EXCEPT ![m] = t] /\ script' = [script EXCEPT ![t] = Tail(script[t])]
      /\ tasks' = tasks /\ connections' = connections
  BY DEF Acquire, Doing, Subject, socketVars, taskVars
<1>2. Held(t) \subseteq Mutexes /\ Proper(script[t], Held(t))
      /\ holder \in [Mutexes -> Threads \cup {Nobody}]
  BY DEF Held, IInv
<1>3. m \in Mutexes /\ script[t][1] = Lock(m)
  <2>1. script[t][1] \in Operations
    BY <1>1, <1>2, FirstOperation
  <2> QED BY <1>1, <2>1 DEF Operations, UnlockAndReturn, Lock
<1> HIDE DEF m
<1>4. \A u \in Threads : Held(u)' = (IF u = t THEN Held(u) \cup {m} ELSE Held(u)) /\ m \notin Held(u)
  BY <1>1, <1>2, <1>3, ServerAssumption DEF Held
<1>5. Proper(Tail(script[t]), Held(t) \cup {m})
  BY <1>1, <1>2, <1>3, <1>4, AcquireIsProper
<1>6. /\ script' = [u \in Threads |-> script'[u]]
      /\ script'[t] = Tail(script[t]) /\ \A u \in Threads \ {t} : script'[u] = script[u]
  BY <1>1 DEF IInv
<1>7. \A u \in Threads : Proper(script'[u], Held(u)')
  BY <1>4, <1>5, <1>6 DEF IInv
<1>8. Listed(script'["game"], connections', Held("game")')
  <2>1. Listed(script["game"], connections, Held("game")) /\ script["game"] \in Seq(Operations)
    BY DEF IInv, Proper, Threads
  <2>2. CASE t = "game"
    <3> DEFINE G == Held("game")'
    <3>1. Connection \in Held("game") => Connection \in G
      BY <1>4 DEF Threads
    <3> HIDE DEF G
    <3>2. Listed(Tail(script["game"]), connections, G)
      BY <1>1, <2>1, <2>2, <3>1, ListedRest
    <3> QED BY <1>1, <1>6, <2>2, <3>2 DEF G
  <2>3. CASE t # "game"
    BY <1>1, <1>4, <1>6, <2>1, <2>3 DEF Threads
  <2> QED BY <2>2, <2>3
<1>9. holder' \in [Mutexes -> Threads \cup {Nobody}]
  BY <1>1, <1>2
<1> QED BY <1>1, <1>6, <1>7, <1>8, <1>9 DEF IInv

(* What a thread is doing. *)
LEMMA DoingOne ==
  ASSUME IInv, NEW t \in Threads, NEW k, Doing(t, k)
  PROVE  /\ script[t] # <<>> /\ script[t] \in Seq(Operations) /\ Proper(script[t], Held(t))
         /\ Held(t) \subseteq Mutexes
         /\ script[t][1] \in Operations /\ script[t][1][1] = k
         /\ k \in {"send", "append", "want", "receive", "sate", "transmit", "enlist", "delist", "console"}
              => Subject(t) \in Clients /\ script[t][1] = <<k, Subject(t)>>
         /\ k \in {"poll", "push", "erase"}
              => Subject(t) \in Sockets /\ script[t][1] = <<k, Subject(t)>>
         /\ k \in {"pick", "take", "wait", "ended", "update", "clear", "shutdown", "join"}
              => script[t][1] = <<k>>
<1>1. /\ script[t] # <<>> /\ script[t][1][1] = k
      /\ Proper(script[t], Held(t)) /\ Held(t) \subseteq Mutexes
  BY DEF IInv, Doing, Held
<1>2. script[t] \in Seq(Operations) /\ script[t][1] \in Operations
  BY <1>1, FirstOperation DEF Proper
<1> QED BY <1>1, <1>2 DEF Operations, UnlockAndReturn, Subject

-----------------------------------------------------------------------------
(* A thread that sends nothing. *)
Silent(s) == \A i \in DOMAIN s : \A c \in Clients : s[i] \notin {<<"send", c>>, <<"append", c>>}

(* The list does not matter to a thread that sends nothing. *)
LEMMA SilentIsListed ==
  ASSUME NEW s, Silent(s), NEW L, NEW H
  PROVE  Listed(s, L, H)
BY DEF Silent, Listed

(* A thread that sends nothing and then nothing. *)
LEMMA SilentBlocks ==
  ASSUME NEW O, NEW a \in Seq(O), NEW b \in Seq(O), Silent(a), Silent(b)
  PROVE  Silent(a \o b)
<1>1. /\ Len(a) \in Nat /\ Len(b) \in Nat
      /\ DOMAIN (a \o b) = 1..(Len(a) + Len(b))
      /\ DOMAIN a = 1..Len(a) /\ DOMAIN b = 1..Len(b)
      /\ \A i \in DOMAIN a : (a \o b)[i] = a[i]
      /\ \A i \in DOMAIN b : (a \o b)[Len(a) + i] = b[i]
  BY Concatenation
<1> SUFFICES ASSUME NEW k \in DOMAIN (a \o b), NEW c \in Clients
             PROVE  (a \o b)[k] \notin {<<"send", c>>, <<"append", c>>}
  BY DEF Silent
<1>2. CASE k <= Len(a)
  BY <1>1, <1>2 DEF Silent
<1>3. CASE k > Len(a)
  <2>1. k - Len(a) \in DOMAIN b /\ Len(a) + (k - Len(a)) = k
    BY <1>1, <1>3
  <2>2. (a \o b)[k] = b[k - Len(a)]
    BY <1>1, <2>1
  <2> QED BY <2>1, <2>2 DEF Silent
<1> QED BY <1>1, <1>2, <1>3

(* When a connection is deleted the game has nothing left to send. *)
LEMMA NoMoreSends ==
  ASSUME NEW O, NEW s \in Seq(O), s # <<>>, NEW L, NEW H, Listed(s, L, H), Drops(s[1])
  PROVE  Silent(Tail(s))
<1> DEFINE r == Tail(s)
<1>1. /\ Len(s) \in Nat /\ Len(s) > 0 /\ DOMAIN s = 1..Len(s) /\ DOMAIN r = 1..(Len(s) - 1)
      /\ \A i \in DOMAIN r : r[i] = s[i + 1]
  BY Rest
<1> HIDE DEF r
<1> SUFFICES ASSUME NEW i \in DOMAIN r, NEW c \in Clients, r[i] \in {<<"send", c>>, <<"append", c>>}
             PROVE  FALSE
  BY DEF Silent, r
<1>2. i + 1 \in DOMAIN s /\ s[i + 1] \in {<<"send", c>>, <<"append", c>>}
  BY <1>1
<1>3. \A k \in DOMAIN s : k < i + 1 => ~Drops(s[k])
  BY <1>2 DEF Listed
<1>4. 1 \in DOMAIN s /\ 1 < i + 1
  BY <1>1
<1> QED BY <1>3, <1>4

-----------------------------------------------------------------------------
(* Operations that lead to nothing else.                                   *)

(* A thread goes on: a connection is deleted by the thread that has the    *)
(* list, which has nothing left to send.                                   *)
LEMMA ContinueStep ==
  ASSUME IInv, NEW t \in Threads, NEW k, Doing(t, k),
         k \notin {"lock", "unlock", "pick", "take", "ended"}, Continue(t),
         tasks' \in Seq(Sockets), connections' \subseteq Clients,
         connections \subseteq connections' \/ k \in {"delist", "clear"}
  PROVE  IInv'
<1> DEFINE s == script[t]
<1>1. /\ s # <<>> /\ s \in Seq(Operations) /\ Proper(s, Held(t)) /\ Held(t) \subseteq Mutexes
      /\ s[1] \in Operations /\ s[1][1] = k
  BY DoingOne
<1>2. Tail(s) \in Seq(Operations)
  BY <1>1, Rest
<1>3. <<>> \o Tail(s) = Tail(s)
  BY <1>2, ConcatEmptySeq
<1>4. Proper(Tail(s), Held(t))
  BY <1>1, ProperRest
<1>5. k \in {"delist", "clear"} => Drops(s[1]) /\ NeedsList(s[1])
  BY <1>1 DEF Drops, NeedsList
<1>6. k \in {"delist", "clear"} => Connection \in Held(t)
  BY <1>1, <1>5, FirstOperation
<1>7. ASSUME t = "game" PROVE Listed(Tail(s), connections', Held("game"))
  <2>1. Listed(s, connections, Held("game"))
    BY <1>7 DEF IInv
  <2>2. CASE connections \subseteq connections'
    <3>1. s[1] # Unlock(Connection)
      BY <1>1 DEF Unlock
    <3>2. Listed(Tail(s), connections, Held("game"))
      BY <1>1, <2>1, ListedRest
    <3> QED BY <2>2, <3>2 DEF Listed
  <2>3. CASE k \in {"delist", "clear"}
    <3>1. Silent(Tail(s))
      BY <1>1, <1>5, <2>1, <2>3, NoMoreSends
    <3> QED BY <3>1, SilentIsListed
  <2> QED BY <2>2, <2>3
<1>8. Then(t, <<>>)
  BY DEF Continue
<1>9. Proper(<<>> \o Tail(script[t]), Held(t))
      /\ (t = "game" => Listed(<<>> \o Tail(script[t]), connections', Held("game")))
      /\ (t = "worker" /\ Connection \notin Held("worker") => connections \subseteq connections')
  BY <1>3, <1>4, <1>6, <1>7
<1> QED BY <1>8, <1>9, ThenStep

(* Push, Touch, Erase, Enlist and Delist, by either thread. *)
LEMMA PlainSteps ==
  ASSUME IInv, NEW t \in Threads, Push(t) \/ Touch(t) \/ Erase(t) \/ Enlist(t) \/ Delist(t)
  PROVE  IInv'
<1>1. connections \subseteq Clients /\ tasks \in Seq(Sockets)
  BY DEF IInv
<1>2. CASE Push(t)
  <2>1. /\ Doing(t, "push") /\ Continue(t) /\ connections' = connections
        /\ tasks' = Append(tasks, Subject(t))
    BY <1>2 DEF Push, socketVars
  <2>2. tasks' \in Seq(Sockets)
    BY <1>1, <2>1, DoingOne
  <2> QED BY <1>1, <2>1, <2>2, ContinueStep
<1>3. CASE Touch(t)
  <2>1. Continue(t) /\ connections' = connections /\ tasks' = tasks
    BY <1>3 DEF Touch, taskVars
  <2>2. PICK k \in {"append", "transmit", "want", "sate", "receive"} : Doing(t, k)
    BY <1>3 DEF Touch
  <2> QED BY <1>1, <2>1, <2>2, ContinueStep
<1>4. CASE Erase(t)
  <2>1. Doing(t, "erase") /\ Continue(t) /\ connections' = connections /\ tasks' = tasks
    BY <1>4 DEF Erase, taskVars
  <2> QED BY <1>1, <2>1, ContinueStep
<1>5. CASE Enlist(t)
  <2>1. /\ Doing(t, "enlist") /\ Continue(t) /\ connections' = connections \cup {Subject(t)}
        /\ tasks' = tasks
    BY <1>5 DEF Enlist, taskVars
  <2>2. Subject(t) \in Clients
    BY <2>1, DoingOne
  <2> QED BY <1>1, <2>1, <2>2, ContinueStep
<1>6. CASE Delist(t)
  <2>1. /\ Doing(t, "delist") /\ Continue(t) /\ connections' = connections \ {Subject(t)}
        /\ tasks' = tasks
    BY <1>6 DEF Delist, taskVars
  <2> QED BY <1>1, <2>1, ContinueStep
<1> QED BY <1>2, <1>3, <1>4, <1>5, <1>6

(* Wake, PollClosed, Shutdown and Join. *)
LEMMA PlainStepsOfOne ==
  ASSUME IInv, Wake \/ PollClosed \/ Shutdown \/ Join
  PROVE  IInv'
<1>1. connections \subseteq Clients /\ tasks \in Seq(Sockets)
      /\ "game" \in Threads /\ "worker" \in Threads
  BY DEF IInv, Threads
<1>2. CASE Wake
  <2>1. Doing("worker", "wait") /\ Continue("worker") /\ connections' = connections /\ tasks' = tasks
    BY <1>2 DEF Wake, socketVars, taskVars
  <2> QED BY <1>1, <2>1, ContinueStep
<1>3. CASE PollClosed
  <2>1. Doing("worker", "poll") /\ Continue("worker") /\ connections' = connections /\ tasks' = tasks
    BY <1>3 DEF PollClosed, socketVars, taskVars
  <2> QED BY <1>1, <2>1, ContinueStep
<1>4. CASE Shutdown
  <2>1. Doing("game", "shutdown") /\ Continue("game") /\ connections' = connections /\ tasks' = tasks
    BY <1>4 DEF Shutdown, socketVars, taskVars
  <2> QED BY <1>1, <2>1, ContinueStep
<1>5. CASE Join
  <2>1. Doing("game", "join") /\ Continue("game") /\ connections' = connections /\ tasks' = tasks
    BY <1>5 DEF Join, socketVars, taskVars
  <2> QED BY <1>1, <2>1, ContinueStep
<1> QED BY <1>2, <1>3, <1>4, <1>5

-----------------------------------------------------------------------------
(* Operations that lead to others.                                         *)

(* An operation is replaced by a quiet block. *)
LEMMA QuietStep ==
  ASSUME IInv, NEW t \in Threads, NEW k, Doing(t, k),
         k \notin {"lock", "unlock", "pick", "take", "ended"},
         NEW ops, NEW r \in Int, Block(ops, r), Reach(script[t][1]) <= r, Quiet(ops), Then(t, ops),
         t = "game" => Listed(ops, connections, Held("game")),
         tasks' \in Seq(Sockets), connections' = connections
  PROVE  IInv'
<1> DEFINE s == script[t]
<1>1. /\ s # <<>> /\ s \in Seq(Operations) /\ Proper(s, Held(t)) /\ Held(t) \subseteq Mutexes
      /\ s[1][1] = k
  BY DoingOne
<1>2. Proper(ops \o Tail(s), Held(t))
  BY <1>1, QuietExpansion
<1>3. ops \in Seq(Operations) /\ Tail(s) \in Seq(Operations)
  BY <1>1, Rest DEF Block
<1>4. ASSUME t = "game" PROVE Listed(ops \o Tail(s), connections, Held("game"))
  <2>1. Listed(s, connections, Held("game")) /\ s[1] # Unlock(Connection)
    BY <1>1, <1>4 DEF IInv, Unlock
  <2>2. Listed(Tail(s), connections, Held("game"))
    BY <1>1, <2>1, ListedRest
  <2>3. \A n \in DOMAIN ops : ~Drops(ops[n])
    BY QuietIsKept
  <2> QED BY <1>3, <1>4, <2>2, <2>3, ListedBefore
<1>5. connections' \subseteq Clients
  BY DEF IInv
<1> QED BY <1>2, <1>4, <1>5, ThenStep

(* Sending takes the send buffer and puts the socket among the tasks. *)
LEMMA SendStep ==
  ASSUME IInv, NEW t \in Threads, SendToSocket(t)
  PROVE  IInv'
<1> DEFINE c == Subject(t)
           ops == IF c \in active THEN SendConnected(c) ELSE <<>>
<1>1. /\ Doing(t, "send") /\ Then(t, ops) /\ connections' = connections /\ tasks' = tasks
  BY DEF SendToSocket, socketVars, taskVars
<1>2. c \in Clients /\ script[t][1] = <<"send", c>> /\ Proper(script[t], Held(t))
      /\ script[t] # <<>> /\ 1 \in DOMAIN script[t]
  BY <1>1, DoingOne, FirstOperation DEF Held
<1>3. Block(ops, BufferRank) /\ Quiet(ops)
  BY <1>2, SendBlocks, NothingIsABlock, QuietCode
<1>4. Reach(script[t][1]) <= BufferRank /\ BufferRank \in Int
  BY <1>2, Reaches DEF Reach
<1>5. ASSUME t = "game" PROVE Listed(ops, connections, Held("game"))
  <2>1. c \in connections /\ Connection \in Held("game")
    BY <1>2, <1>5 DEF IInv, Listed
  <2> QED BY <1>2, <2>1, ListedCode
<1>6. tasks' \in Seq(Sockets)
  BY <1>1 DEF IInv
<1> HIDE DEF ops
<1> QED BY <1>1, <1>3, <1>4, <1>5, <1>6, QuietStep

(* Every connection that has a ship is sent to, in some order. *)
LEMMA OrderOfConnections ==
  ASSUME ServerAssumption, NEW S, S \subseteq Clients, NEW order \in SetToSeqs(S)
  PROVE  /\ Len([i \in DOMAIN order |-> <<"send", order[i]>>]) \in Nat
         /\ [i \in DOMAIN order |-> <<"send", order[i]>>] \in Seq({"send"} \X S)
<1>1. Cardinality(S) \in Nat
  BY FS_Subset, FS_CardinalityType DEF ServerAssumption
<1> DEFINE n == Cardinality(S)
           ops == [i \in DOMAIN order |-> <<"send", order[i]>>]
<1>2. order \in [1..n -> S]
  BY DEF SetToSeqs
<1>3. ops \in [1..n -> {"send"} \X S]
  BY <1>2
<1>4. ops \in Seq({"send"} \X S)
  BY <1>1, <1>3
<1> QED BY <1>4

(* The game sends to all connections that have a ship. *)
LEMMA UpdateStep ==
  ASSUME IInv, Update
  PROVE  IInv'
<1> DEFINE S == {c \in connections : sock[c].crewed}
<1>0. "game" \in Threads
  BY DEF Threads
<1>1. PICK order \in SetToSeqs(S) : Then("game", [i \in DOMAIN order |-> <<"send", order[i]>>])
  BY DEF Update
<1> DEFINE ops == [i \in DOMAIN order |-> <<"send", order[i]>>]
<1>2. Doing("game", "update") /\ connections' = connections /\ tasks' = tasks
      /\ S \subseteq connections /\ connections \subseteq Clients /\ tasks \in Seq(Sockets)
  BY DEF Update, IInv, socketVars, taskVars
<1> HIDE DEF S
<1>3. ops \in Seq({"send"} \X S)
  BY <1>2, OrderOfConnections, ServerAssumption
<1>4. Then("game", ops)
  BY <1>1
<1> HIDE DEF ops
<1>5. \A i \in DOMAIN ops : \E c \in S : ops[i] = <<"send", c>>
  BY <1>3
<1>6. ops \in Seq(Operations)
  BY <1>2, <1>3 DEF Operations
<1>7. Block(ops, BufferRank)
  <2>1. \A i \in DOMAIN ops : Reach(ops[i]) >= BufferRank
    BY <1>5, Reaches DEF Reach
  <2>2. Guarded(ops, {})
    BY <1>5 DEF Guarded, Lock
  <2> QED BY <1>6, <2>1, <2>2 DEF Block
<1>8. Quiet(ops)
  BY <1>5 DEF Quiet, NeedsList, Unlock
<1>9. /\ script["game"] # <<>> /\ script["game"][1] = <<"update">>
      /\ Proper(script["game"], Held("game")) /\ Held("game") \subseteq Mutexes
  BY <1>0, <1>2, DoingOne
<1>10. Reach(script["game"][1]) <= BufferRank /\ BufferRank \in Int
  BY <1>9, Reaches DEF Reach
<1>11. Connection \in Held("game")
  BY <1>9, FirstOperation DEF NeedsList
<1>12. Listed(ops, connections, Held("game"))
  <2>1. \A k \in DOMAIN ops : ~Drops(ops[k])
    BY <1>8, QuietIsKept
  <2>2. \A i \in DOMAIN ops : \A c \in Clients : ops[i] \in {<<"send", c>>, <<"append", c>>} => c \in connections
    BY <1>2, <1>5
  <2> QED BY <1>11, <2>1, <2>2 DEF Listed
<1> QED BY <1>0, <1>2, <1>4, <1>7, <1>8, <1>10, <1>12, QuietStep

(* A console of a client on the list is sent to. *)
LEMMA ConsoleStep ==
  ASSUME IInv, Console
  PROVE  IInv'
<1> DEFINE c == Subject("game")
<1>1. /\ Doing("game", "console") /\ connections' = connections /\ tasks' = tasks
      /\ (c \in connections /\ Then("game", Send(c))) \/ Continue("game")
      /\ "game" \in Threads /\ connections \subseteq Clients /\ tasks \in Seq(Sockets)
  BY DEF Console, IInv, taskVars, Threads
<1>2. CASE Continue("game")
  BY <1>1, <1>2, ContinueStep
<1>3. CASE c \in connections /\ Then("game", Send(c))
  <2>1. /\ script["game"] # <<>> /\ script["game"][1] = <<"console", c>>
        /\ Proper(script["game"], Held("game")) /\ Held("game") \subseteq Mutexes
        /\ c \in Clients
    BY <1>1, DoingOne
  <2>2. Reach(script["game"][1]) <= BufferRank /\ BufferRank \in Int
    BY <2>1, Reaches DEF Reach
  <2>3. Connection \in Held("game")
    BY <2>1, FirstOperation DEF NeedsList
  <2>4. Block(Send(c), BufferRank) /\ Quiet(Send(c)) /\ Listed(Send(c), connections, Held("game"))
    BY <1>3, <2>1, <2>3, SendBlocks, QuietCode, ListedCode
  <2> HIDE DEF c
  <2> QED BY <1>1, <1>3, <2>2, <2>4, QuietStep
<1> QED BY <1>1, <1>2, <1>3

(* The loop that deletes the connections goes on. *)
LEMMA ClearStep ==
  ASSUME IInv, Clear
  PROVE  IInv'
<1> DEFINE s == script["game"]
<1>1. /\ Doing("game", "clear") /\ tasks' = tasks /\ "game" \in Threads
      /\ connections \subseteq Clients /\ tasks \in Seq(Sockets)
  BY DEF Clear, IInv, taskVars, Threads
<1>2. \/ Continue("game") /\ connections' = connections
      \/ \E c \in connections : /\ Then("game", DeleteSocket(c) \o <<<<"clear">>>>)
                                /\ connections' = connections \ {c}
  BY DEF Clear
<1>3. CASE Continue("game") /\ connections' = connections
  BY <1>1, <1>3, ContinueStep
<1>4. ASSUME NEW c \in connections, Then("game", DeleteSocket(c) \o <<<<"clear">>>>),
             connections' = connections \ {c}
      PROVE  IInv'
  <2> DEFINE final == <<<<"clear">>>>
             ops == DeleteSocket(c) \o final
  <2>1. /\ s # <<>> /\ s \in Seq(Operations) /\ Proper(s, Held("game")) /\ Held("game") \subseteq Mutexes
        /\ s[1] = <<"clear">> /\ s[1][1] \notin {"lock", "unlock", "pick", "take", "ended"}
    BY <1>1, DoingOne
  <2>2. Connection \in Held("game") /\ Drops(s[1]) /\ Reach(s[1]) <= ActivityRank /\ ActivityRank \in Int
    BY <2>1, FirstOperation, Reaches DEF NeedsList, Drops, Reach
  <2>3. c \in Clients /\ c \in Sockets
    BY <1>1 DEF Sockets
  <2>4. /\ Quiet(DeleteSocket(c)) /\ DeleteSocket(c) \in Seq(Operations)
        /\ final \in Seq(Operations) /\ Block(ops, ActivityRank)
    BY <2>3, QuietCode, ActivityBlocks, GameBlocks DEF Block, Operations
  <2>5. Kept(final, Held("game")) /\ \A k \in DOMAIN final : final[k] # Unlock(Connection)
    BY <2>2 DEF Kept, HasList, Unlock
  <2>6. Silent(DeleteSocket(c)) /\ Silent(final)
    BY DEF Silent, DeleteSocket, Lock, Unlock
  <2>7. Silent(Tail(s)) /\ Tail(s) \in Seq(Operations)
    BY <2>1, <2>2, Rest, NoMoreSends DEF IInv
  <2> HIDE DEF final
  <2>8. ops \in Seq(Operations) /\ Silent(ops)
    BY <2>4, <2>6, SilentBlocks, Concatenation
  <2>9. Kept(ops, Held("game"))
    BY <2>4, <2>5, QuietIsKept, KeptBefore DEF Drops
  <2>10. \A k \in DOMAIN ops : ops[k] # Unlock(Connection)
    <3>1. \A k \in DOMAIN DeleteSocket(c) : DeleteSocket(c)[k] # Unlock(Connection)
      BY <2>4, QuietIsKept DEF Drops
    <3>2. /\ Len(DeleteSocket(c)) \in Nat /\ Len(final) \in Nat
          /\ DOMAIN ops = 1..(Len(DeleteSocket(c)) + Len(final))
          /\ DOMAIN DeleteSocket(c) = 1..Len(DeleteSocket(c)) /\ DOMAIN final = 1..Len(final)
          /\ \A i \in DOMAIN DeleteSocket(c) : ops[i] = DeleteSocket(c)[i]
          /\ \A i \in DOMAIN final : ops[Len(DeleteSocket(c)) + i] = final[i]
      BY <2>4, Concatenation
    <3> HIDE DEF ops
    <3> SUFFICES ASSUME NEW k \in DOMAIN ops PROVE ops[k] # Unlock(Connection)
      OBVIOUS
    <3>3. CASE k <= Len(DeleteSocket(c))
      BY <3>1, <3>2, <3>3
    <3>4. CASE k > Len(DeleteSocket(c))
      <4> DEFINE i == k - Len(DeleteSocket(c))
      <4>1. i \in DOMAIN final /\ Len(DeleteSocket(c)) + i = k
        BY <3>2, <3>4
      <4> QED BY <2>5, <3>2, <4>1
    <3> QED BY <3>2, <3>3, <3>4
  <2>11. Then("game", ops)
    BY <1>4 DEF final
  <2> HIDE DEF ops
  <2>12. Proper(ops \o Tail(s), Held("game"))
    BY <2>1, <2>2, <2>4, <2>9, <2>10, Expansion
  <2>13. Silent(ops \o Tail(s))
    BY <2>7, <2>8, SilentBlocks
  <2>14. Listed(ops \o Tail(s), connections', Held("game"))
    BY <2>13, SilentIsListed
  <2>15. connections' \subseteq Clients /\ tasks' \in Seq(Sockets)
    BY <1>1, <1>4
  <2> QED BY <1>1, <2>11, <2>12, <2>14, <2>15, ThenStep
<1> QED BY <1>2, <1>3, <1>4

-----------------------------------------------------------------------------
(* The worker. *)

(* A worker that looks at the tasks holds at most mActivityMutex, and one  *)
(* that polls a socket holds nothing.                                      *)
LEMMA WorkerHolds ==
  ASSUME IInv
  PROVE  /\ Doing("worker", "pick") \/ Doing("worker", "take")
              => Held("worker") \subseteq {Activity} /\ Proper(Tail(script["worker"]), {})
         /\ Doing("worker", "poll") => Held("worker") = {}
<1> DEFINE s == script["worker"]
           H == Held("worker")
<1>0. "worker" \in Threads
  BY DEF Threads
<1>1. ASSUME NEW k \in {"pick", "take"}, Doing("worker", k)
      PROVE  H \subseteq {Activity} /\ Proper(Tail(s), {})
  <2>1. /\ s # <<>> /\ s \in Seq(Operations) /\ Proper(s, H) /\ H \subseteq Mutexes
        /\ s[1] = <<k>>
    BY <1>0, <1>1, DoingOne
  <2>2. Reach(s[1]) = ListRank
    BY <2>1 DEF Reach
  <2>3. \A m \in H : Closes(s[1], m) \/ Above(s[1], m)
    BY <2>1, FirstOperation
  <2>4. \A m \in H : ~Above(s[1], m)
    BY <2>1, <2>2, Reaches DEF Above, Lock
  <2>5. H \subseteq {Activity}
    BY <2>1, <2>3, <2>4 DEF Closes
  <2>6. Tail(s) \in Seq(Operations)
    BY <2>1, Rest
  <2>7. Guarded(Tail(s), {})
    BY <2>1, GuardedRest DEF Proper
  <2>8. Connection \notin H /\ s[1] # Lock(Connection)
    BY <2>1, <2>5 DEF Lock, Connection, Activity
  <2> HIDE DEF H
  <2>9. Kept(Tail(s), {})
    BY <2>1, <2>8, KeptRest DEF Proper
  <2> QED BY <2>5, <2>6, <2>7, <2>9 DEF Proper
<1>2. ASSUME Doing("worker", "poll") PROVE H = {}
  <2>1. /\ s # <<>> /\ Proper(s, H) /\ H \subseteq Mutexes /\ s[1][1] = "poll"
    BY <1>0, <1>2, DoingOne
  <2>2. Reach(s[1]) = ListRank
    BY <2>1 DEF Reach
  <2>3. \A m \in H : Closes(s[1], m) \/ Above(s[1], m)
    BY <2>1, FirstOperation
  <2>4. \A m : ~Above(s[1], m) /\ ~Closes(s[1], m)
    BY <2>1, <2>2, Reaches DEF Above, Lock, Closes
  <2> QED BY <2>3, <2>4
<1> QED BY <1>1, <1>2

(* A worker that looks at the tasks may end with mActivityMutex, or        *)
(* release it before it does anything else.                                *)
LEMMA CloseFirst ==
  ASSUME NEW u \in {Unlock(Activity), <<"ended">>}, NEW y, Proper(y, {}),
         NEW H, H \subseteq {Activity}
  PROVE  Proper(<<u>> \o y, H)
<1>1. /\ u \in Operations /\ Closes(u, Activity) /\ u[1] # "lock" /\ ~NeedsList(u)
  BY Locks DEF Operations, Closes, NeedsList, Unlock, Activity, Connection
<1>2. y \in Seq(Operations) /\ Guarded(y, {}) /\ Kept(y, {})
  BY DEF Proper
<1> DEFINE first == <<u>>
           b == first \o y
<1>3. first \in Seq(Operations) /\ Len(first) = 1 /\ first[1] = u /\ DOMAIN first = {1}
  BY <1>1
<1> HIDE DEF first
<1>4. /\ b \in Seq(Operations) /\ Len(y) \in Nat /\ DOMAIN b = 1..(1 + Len(y)) /\ DOMAIN y = 1..Len(y)
      /\ b[1] = u /\ \A i \in DOMAIN y : b[1 + i] = y[i]
  <2>1. /\ b \in Seq(Operations) /\ Len(y) \in Nat /\ DOMAIN b = 1..(Len(first) + Len(y))
        /\ DOMAIN y = 1..Len(y)
        /\ \A i \in DOMAIN first : b[i] = first[i]
        /\ \A i \in DOMAIN y : b[Len(first) + i] = y[i]
    <3>1. first \in Seq(Operations) /\ y \in Seq(Operations)
      BY <1>2, <1>3
    <3> QED BY ONLY <3>1, Concatenation
  <2> HIDE DEF b
  <2> QED BY <1>3, <2>1
<1>5. \A m \in H : Nested(b, m, 0)
  <2>1. Nested(b, Activity, 0)
    BY <1>1, <1>4 DEF Nested
  <2> QED BY <2>1
<1>6. ASSUME NEW i \in DOMAIN b, NEW m \in Mutexes, b[i] = Lock(m) PROVE Nested(b, m, i)
  <2>1. i # 1
    BY <1>1, <1>4, <1>6 DEF Lock
  <2>2. i - 1 \in DOMAIN y /\ 1 + (i - 1) = i /\ i - 1 \in DOMAIN y \cup {0}
    BY <1>4, <2>1
  <2>3. y[i - 1] = Lock(m)
    BY <1>4, <1>6, <2>2
  <2>4. Nested(y, m, i - 1)
    BY <1>2, <2>2, <2>3 DEF Guarded
  <2>5. Nested(b, m, Len(first) + (i - 1))
    BY <1>2, <1>3, <2>2, <2>4, NestedAfter
  <2> QED BY <1>3, <2>2, <2>5
<1>7. Kept(b, H)
  <2>1. Quiet(first)
    BY <1>1, <1>3 DEF Quiet
  <2>2. Kept(first, H)
    BY <2>1, QuietIsKept
  <2>3. Kept(y, H)
    BY <1>2 DEF Kept, HasList
  <2>4. Connection \notin H
    BY DEF Connection, Activity
  <2> QED BY <1>2, <1>3, <2>2, <2>3, <2>4, KeptBefore
<1>8. Guarded(b, H)
  BY <1>5, <1>6 DEF Guarded
<1> QED BY <1>4, <1>7, <1>8 DEF Proper, first

(* The worker takes mActivityMutex to look at the tasks. *)
LEMMA LookBlocks ==
  ASSUME NEW k \in {"pick", "take"}
  PROVE  Block(<<Lock(Activity), <<k>>>>, ListRank) /\ Quiet(<<Lock(Activity), <<k>>>>)
<1> DEFINE s == <<Lock(Activity), <<k>>>>
<1>1. s \in Seq(Operations) /\ Len(s) = 2 /\ s[1] = Lock(Activity) /\ s[2] = <<k>> /\ DOMAIN s = {1, 2}
  BY Locks DEF Operations
<1> HIDE DEF s
<1>2. Closes(s[2], Activity) /\ s[2][1] # "lock" /\ Reach(s[2]) = ListRank
  BY <1>1 DEF Closes, Reach
<1>3. Nested(s, Activity, 1)
  BY <1>1, <1>2 DEF Nested
<1>4. Guarded(s, {})
  <2> SUFFICES ASSUME NEW i \in DOMAIN s, NEW m \in Mutexes, s[i] = Lock(m) PROVE Nested(s, m, i)
    BY DEF Guarded
  <2>1. i = 1
    BY <1>1, <1>2 DEF Lock
  <2> QED BY <1>1, <1>3, <2>1 DEF Lock
<1>5. \A i \in DOMAIN s : Reach(s[i]) >= ListRank
  <2>1. Reach(s[1]) >= ListRank /\ Reach(s[2]) >= ListRank
    BY <1>1, <1>2, Reaches
  <2> QED BY <1>1, <2>1
<1>6. Quiet(s)
  BY <1>1 DEF Quiet, NeedsList, Lock, Unlock
<1>7. Block(s, ListRank)
  BY <1>1, <1>4, <1>5 DEF Block
<1> QED BY <1>6, <1>7 DEF s

(* A worker that looks at the tasks releases mActivityMutex and goes on.   *)
LEMMA LookStep ==
  ASSUME IInv, Doing("worker", "pick") \/ Doing("worker", "take"),
         NEW u \in {Unlock(Activity), <<"ended">>}, NEW x, Block(x, ListRank), Quiet(x),
         NEW ops, ops = <<u>> \o x, Then("worker", ops),
         tasks' \in Seq(Sockets), connections' = connections
  PROVE  IInv'
<1> DEFINE r == Tail(script["worker"])
           first == <<u>>
           H == Held("worker")
<1>1. H \subseteq {Activity} /\ Proper(r, {})
  BY WorkerHolds
<1>2. x \in Seq(Operations) /\ r \in Seq(Operations) /\ first \in Seq(Operations)
  BY <1>1, Locks DEF Block, Proper, Operations
<1> HIDE DEF r, H
<1>3. Proper(x \o r, {})
  <2>1. Kept(x, {}) /\ ListRank \in Int
    BY QuietIsKept, Reaches
  <2> QED BY <1>1, <2>1, ProperBefore
<1>4. Proper(first \o (x \o r), H)
  <2> DEFINE y == x \o r
  <2>1. Proper(y, {})
    BY <1>3
  <2> HIDE DEF y
  <2>2. Proper(<<u>> \o y, H)
    BY <1>1, <2>1, CloseFirst
  <2> QED BY <2>2 DEF y
<1> HIDE DEF first
<1>5. (first \o x) \o r = first \o (x \o r)
  BY <1>2, ConcatAssociative
<1>6. Proper(ops \o Tail(script["worker"]), Held("worker"))
  BY <1>4, <1>5 DEF first, r, H
<1>7. "worker" \in Threads /\ "worker" # "game" /\ connections \subseteq Clients
  BY DEF Threads, IInv
<1> QED BY <1>6, <1>7, ThenStep

(* Wait, Take and End. *)
LEMMA LookSteps ==
  ASSUME IInv, Wait \/ Take \/ End
  PROVE  IInv'
<1> DEFINE unlock == Unlock(Activity)
<1>0. tasks \in Seq(Sockets) /\ unlock \in Operations /\ Lock(Activity) \in Operations
  BY Locks DEF IInv
<1>1. CASE Wait
  <2> DEFINE wait == <<<<"wait">>>>
             look == <<Lock(Activity), <<"take">>>>
             x == wait \o look
             ops == <<unlock, <<"wait">>, Lock(Activity), <<"take">>>>
  <2>1. /\ Doing("worker", "pick") /\ Then("worker", ops)
        /\ connections' = connections /\ tasks' = tasks
    BY <1>1 DEF Wait, socketVars
  <2>2. Block(wait, ListRank) /\ Quiet(wait)
    BY Plain DEF Quiet, NeedsList, Unlock
  <2>3. Block(look, ListRank) /\ Quiet(look)
    BY LookBlocks
  <2>4. ops = <<unlock>> \o x
    <3> DEFINE z == <<unlock>> \o x
    <3>1. <<"wait">> \in Operations /\ <<"take">> \in Operations
      BY DEF Operations
    <3>2. ops \in Seq(Operations) /\ z \in Seq(Operations) /\ Len(ops) = 4 /\ Len(z) = 4
      BY <1>0, <3>1
    <3>3. \A i \in 1..4 : ops[i] = z[i]
      BY <1>0, <3>1
    <3> HIDE DEF ops, z
    <3>4. ops = z
      BY <3>2, <3>3, SeqEqual
    <3> QED BY <3>4 DEF z
  <2> HIDE DEF wait, look, ops
  <2>5. Block(x, ListRank) /\ Quiet(x)
    BY <2>2, <2>3, BlockOfBlocks, QuietBlocks DEF Block
  <2> HIDE DEF x
  <2> QED BY <1>0, <2>1, <2>4, <2>5, LookStep
<1>2. CASE Take
  <2> DEFINE s == Head(tasks)
             ops == Task(s) \o Run
  <2>1. /\ Doing("worker", "pick") \/ Doing("worker", "take")
        /\ Then("worker", ops) /\ tasks # <<>>
        /\ connections' = connections /\ tasks' = Tail(tasks)
    BY <1>2 DEF Take, socketVars
  <2>2. s \in Sockets /\ tasks' \in Seq(Sockets)
    BY <1>0, <2>1, HeadTailProperties
  <2>3. Block(Run, ListRank) /\ Quiet(Run)
    BY LookBlocks DEF Run
  <2> DEFINE poll == <<<<"poll", s>>>>
             first == <<unlock>>
  <2>4. Block(poll, ListRank) /\ Quiet(poll) /\ first \in Seq(Operations)
    <3>1. Block(poll, ListRank)
      BY <2>2, Plain
    <3>2. Quiet(poll)
      BY DEF Quiet, NeedsList, Unlock
    <3> QED BY <1>0, <3>1, <3>2
  <2>5. CASE s \in active
    <3> DEFINE x == poll \o Run
    <3>1. Task(s) = first \o poll
      BY <2>5, TwoInARow DEF Task
    <3> HIDE DEF poll, first
    <3>2. Block(x, ListRank) /\ Quiet(x)
      BY <2>3, <2>4, BlockOfBlocks, QuietBlocks DEF Block
    <3>3. (first \o poll) \o Run = first \o x
      BY <2>3, <2>4, ConcatAssociative DEF Block
    <3>4. ops = <<unlock>> \o x
      BY <3>1, <3>3 DEF first
    <3> HIDE DEF x, ops
    <3> QED BY <2>1, <2>2, <3>2, <3>4, LookStep
  <2>6. CASE s \notin active
    <3>1. ops = <<unlock>> \o Run
      BY <2>6 DEF Task
    <3> HIDE DEF ops
    <3> QED BY <2>1, <2>2, <2>3, <3>1, LookStep
  <2> QED BY <2>5, <2>6
<1>3. CASE End
  <2> DEFINE ops == <<<<"ended">>>>
  <2>1. /\ Doing("worker", "pick") \/ Doing("worker", "take")
        /\ Then("worker", ops)
        /\ connections' = connections /\ tasks' = tasks
    BY <1>3 DEF End, socketVars, taskVars
  <2>2. Block(<<>>, ListRank) /\ Quiet(<<>>)
    BY NothingIsABlock, QuietCode
  <2>3. ops = <<<<"ended">>>> \o <<>>
    BY ConcatEmptySeq DEF Operations
  <2> HIDE DEF ops
  <2> QED BY <1>0, <2>1, <2>2, <2>3, LookStep
<1> QED BY <1>1, <1>2, <1>3

(* What the worker does with the socket that it polls. *)
LEMMA PollStep ==
  ASSUME IInv, Doing("worker", "poll"), NEW ops, Then("worker", ops),
         Block(ops, ListRank), Kept(ops, {}),
         tasks' \in Seq(Sockets), connections' = connections
  PROVE  IInv'
<1> DEFINE s == script["worker"]
<1>1. "worker" \in Threads /\ "worker" # "game" /\ connections \subseteq Clients
  BY DEF Threads, IInv
<1>2. /\ s # <<>> /\ Proper(s, Held("worker"))
      /\ s[1][1] = "poll"
  BY <1>1, DoingOne
<1>3. Held("worker") = {} /\ {} \subseteq Mutexes
  BY WorkerHolds
<1>4. Reach(s[1]) <= ListRank /\ ListRank \in Int
  BY <1>2, Reaches DEF Reach
<1>5. Proper(ops \o Tail(s), {})
  BY <1>2, <1>3, <1>4, Expansion
<1> QED BY <1>1, <1>3, <1>5, ThenStep

(* PollListener and PollConnected. *)
LEMMA PollSteps ==
  ASSUME IInv, PollListener \/ \E c \in Clients : PollConnected(c)
  PROVE  IInv'
<1>0. tasks \in Seq(Sockets) /\ connections \subseteq Clients /\ "worker" \in Threads
  BY DEF IInv, Threads
<1>1. CASE PollListener
  <2>1. Doing("worker", "poll") /\ tasks' = tasks /\ connections' = connections
    BY <1>1 DEF PollListener, Accept, socketVars, taskVars
  <2>2. (\E c \in Clients : Then("worker", ConnectionAccepted(c))) \/ Continue("worker")
    BY <1>1 DEF PollListener, Accept
  <2>3. ASSUME NEW c \in Clients, Then("worker", ConnectionAccepted(c)) PROVE IInv'
    <3>1. Block(ConnectionAccepted(c), ListRank) /\ Kept(ConnectionAccepted(c), {})
      BY ConnectionBlocks, KeptCode
    <3> QED BY <1>0, <2>1, <2>3, <3>1, PollStep
  <2>4. CASE Continue("worker")
    BY <1>0, <2>1, <2>4, ContinueStep
  <2> QED BY <2>2, <2>3, <2>4
<1>2. ASSUME NEW c \in Clients, PollConnected(c) PROVE IInv'
  <2>1. Doing("worker", "poll") /\ tasks' = tasks /\ connections' = connections
    BY <1>2 DEF PollConnected, socketVars, taskVars
  <2>2. PICK ops : /\ Then("worker", ops)
                   /\ \/ ops = Disconnected(c)
                      \/ \E answered \in BOOLEAN : ops = DataRead(c, answered) \o PolloutReceived(c)
                      \/ ops = PolloutReceived(c)
    BY <1>2 DEF PollConnected
  <2>3. Block(PolloutReceived(c), ListRank) /\ Kept(PolloutReceived(c), {})
    BY ConnectionBlocks, QuietCode, QuietIsKept
  <2>4. Block(Disconnected(c), ListRank) /\ Kept(Disconnected(c), {})
    BY ConnectionBlocks, KeptCode
  <2>5. ASSUME NEW answered \in BOOLEAN
        PROVE  /\ Block(DataRead(c, answered) \o PolloutReceived(c), ListRank)
               /\ Kept(DataRead(c, answered) \o PolloutReceived(c), {})
    <3>1. /\ Block(DataRead(c, answered), ListRank) /\ Block(PolloutReceived(c), ListRank)
          /\ Quiet(DataRead(c, answered)) /\ Quiet(PolloutReceived(c))
      BY ConnectionBlocks, QuietCode
    <3>2. Quiet(DataRead(c, answered) \o PolloutReceived(c))
      BY <3>1, QuietBlocks DEF Block
    <3> QED BY <3>1, <3>2, BlockOfBlocks, QuietIsKept
  <2>6. Block(ops, ListRank) /\ Kept(ops, {})
    BY <2>2, <2>3, <2>4, <2>5
  <2> QED BY <1>0, <2>1, <2>2, <2>6, PollStep
<1> QED BY <1>1, <1>2

-----------------------------------------------------------------------------
(* The remaining steps. *)

(* A mutex is released. *)
LEMMA ReleaseByThread ==
  ASSUME IInv, NEW t \in Threads, Release(t)
  PROVE  IInv'
<1> DEFINE s == script[t]
<1>1. /\ s # <<>> /\ s[1][1] = "unlock"
      /\ holder' = [holder EXCEPT ![s[1][2]] = Nobody] /\ script' = [script EXCEPT ![t] = Tail(s)]
      /\ tasks' = tasks /\ connections' = connections
  BY DEF Release, Doing, Subject, socketVars, taskVars
<1>2. /\ Proper(s, Held(t)) /\ tasks \in Seq(Sockets) /\ connections \subseteq Clients
      /\ t = "game" => Listed(s, connections, Held("game"))
  BY DEF IInv
<1> HIDE DEF s
<1> QED BY <1>1, <1>2, ReleaseStep

(* The handler of the signal interrupts a thread, wherever it is.          *)
LEMMA InterruptStep ==
  ASSUME IInv, NEW t \in Threads, NEW s \in Sockets, Interrupt(t, s), s \in active
  PROVE  IInv'
<1> DEFINE ops == SigIOAction(s)
           rest == ops \o script[t]
           H == Held(t)
<1>1. /\ script' = [script EXCEPT ![t] = rest] /\ holder' = holder
      /\ tasks' = tasks /\ connections' = connections
  BY DEF Interrupt, socketVars
<1>2. /\ Proper(script[t], H) /\ H \subseteq Mutexes
      /\ holder \in [Mutexes -> Threads \cup {Nobody}] /\ tasks \in Seq(Sockets)
      /\ connections \subseteq Clients
      /\ t = "game" => Listed(script[t], connections, Held("game"))
  BY DEF IInv, Held
<1>3. Block(ops, ActivityRank) /\ Quiet(ops)
  BY ActivityBlocks, QuietCode
<1>4. ASSUME NEW k \in DOMAIN ops, NEW m \in H PROVE Above(ops[k], m)
  <2>1. DOMAIN ops = {1, 2, 3} /\ ops[1] = Lock(Activity) /\ ops[2] = <<"push", s>> /\ ops[3] = UnlockAndReturn
    BY DEF SigIOAction
  <2>2. CASE k = 1
    <3>1. CASE m = Activity
      BY <2>1, <2>2, <3>1 DEF Above
    <3>2. CASE m # Activity
      <4>1. Rank(m) < ActivityRank
        BY <3>2, Reaches DEF Rank
      <4> QED BY <2>1, <2>2, <4>1, Reaches DEF Above
    <3> QED BY <3>1, <3>2
  <2>3. CASE k # 1
    <3>1. Reach(ops[k]) = NoRank
      BY <2>1, <2>3 DEF Reach, UnlockAndReturn
    <3> QED BY <3>1, Reaches DEF Above
  <2> QED BY <2>2, <2>3
<1>5. \A n \in DOMAIN ops : ~Drops(ops[n])
  BY <1>3, QuietIsKept
<1>6. Silent(ops)
  BY DEF Silent, SigIOAction, Lock, UnlockAndReturn
<1> HIDE DEF ops, H
<1>7. Guarded(rest, H)
  BY <1>2, <1>3, <1>4, GuardedBefore DEF Proper, Block
<1>8. Kept(rest, H)
  BY <1>2, <1>3, <1>5, QuietIsKept, KeptBefore DEF Proper, Block, Drops
<1>9. Proper(rest, H)
  BY <1>2, <1>3, <1>7, <1>8, Concatenation DEF Proper, Block
<1>10. t = "game" => Listed(rest, connections, Held("game"))
  BY <1>2, <1>3, <1>5, <1>6, SilentIsListed, ListedBefore DEF Proper, Block
<1>11. \A u \in Threads : Held(u)' = Held(u)
  BY <1>1 DEF Held
<1> HIDE DEF rest
<1> QED BY <1>1, <1>2, <1>9, <1>10, <1>11, StepOfThread DEF H

(* The game begins something. *)
LEMMA BeginStep ==
  ASSUME IInv, NEW ops, Begin(ops), Block(ops, ListRank), Kept(ops, {}),
         \A H : Listed(ops, connections, H),
         UNCHANGED <<holder, tasks, connections>>
  PROVE  IInv'
<1>1. script["game"] = <<>> /\ script' = [script EXCEPT !["game"] = ops] /\ "game" \in Threads
  BY DEF Begin, Threads
<1>2. Held("game") = {}
  BY <1>1, NothingIsHeld DEF IInv
<1>3. \A u \in Threads : Held(u)' = Held(u)
  BY DEF Held
<1>4. Proper(ops, {})
  BY DEF Proper, Block
<1>5. holder \in [Mutexes -> Threads \cup {Nobody}] /\ tasks \in Seq(Sockets) /\ connections \subseteq Clients
  BY DEF IInv
<1> QED BY <1>1, <1>2, <1>3, <1>4, <1>5, StepOfThread

(* GameCalls and GameStops. *)
LEMMA GameBegins ==
  ASSUME IInv, GameCalls \/ GameStops
  PROVE  IInv'
<1>1. UNCHANGED <<holder, tasks, connections>>
  BY DEF GameCalls, GameStops, socketVars, taskVars
<1>2. PICK ops \in {UpdateClients, Stop} \cup {ConsoleUpdate(c) : c \in Clients} : Begin(ops)
  BY DEF GameCalls, GameStops
<1>3. Block(ops, ListRank) /\ Kept(ops, {}) /\ \A H : Listed(ops, connections, H)
  BY <1>2, GameBlocks, KeptCode, ListedCode
<1> QED BY <1>1, <1>2, <1>3, BeginStep

(* Steps that none of this sees. *)
LEMMA OtherStep ==
  ASSUME IInv, UNCHANGED <<holder, tasks, connections, script>>
  PROVE  IInv'
<1>1. \A u \in Threads : Held(u)' = Held(u)
  BY DEF Held
<1>2. Held("game")' = Held("game")
  BY <1>1 DEF Threads
<1> QED BY <1>1, <1>2 DEF IInv

-----------------------------------------------------------------------------
(* No thread has begun anything but the worker, which is about to look at  *)
(* the tasks.                                                              *)
LEMMA InitiallyProper == Init => IInv
<1> SUFFICES ASSUME Init PROVE IInv
  OBVIOUS
<1>1. /\ holder = [m \in Mutexes |-> Nobody] /\ tasks = <<>> /\ connections = {}
      /\ script = [t \in Threads |-> IF t = "worker" THEN Run ELSE <<>>]
  BY DEF Init
<1>2. \A t \in Threads : Held(t) = {}
  BY <1>1, ServerAssumption DEF Held
<1>3. Proper(<<>>, {}) /\ Proper(Run, {})
  <2>1. Block(<<>>, ListRank) /\ Quiet(<<>>) /\ Block(Run, ListRank) /\ Quiet(Run)
    BY NothingIsABlock, QuietCode, LookBlocks DEF Run
  <2> QED BY <2>1, QuietIsKept DEF Proper, Block
<1>4. Listed(script["game"], connections, Held("game"))
  BY <1>1, ListedCode DEF Threads
<1>5. \A t \in Threads : Proper(script[t], Held(t))
  BY <1>1, <1>2, <1>3
<1>6. script = [t \in Threads |-> script[t]]
  BY <1>1
<1> QED BY <1>1, <1>4, <1>5, <1>6 DEF IInv

(* Every step of either thread, of the handler and of the kernel. *)
LEMMA StepIsProper == IInv /\ [Next]_vars => IInv'
<1> SUFFICES ASSUME IInv, [Next]_vars PROVE IInv'
  OBVIOUS
<1>1. ASSUME NEW t \in Threads, Runs(t) PROVE IInv'
  BY <1>1, AcquireStep, ReleaseByThread, PlainSteps, SendStep DEF Runs
<1>2. CASE Worker
  <2>1. CASE Runs("worker")
    BY <1>1, <2>1 DEF Threads
  <2>2. CASE Wait \/ Take \/ End
    BY <2>2, LookSteps
  <2>3. CASE Wake \/ PollClosed
    BY <2>3, PlainStepsOfOne
  <2>4. CASE PollListener \/ \E c \in Clients : PollConnected(c)
    BY <2>4, PollSteps
  <2> QED BY <1>2, <2>1, <2>2, <2>3, <2>4 DEF Worker
<1>3. CASE Game
  <2>1. CASE Runs("game")
    BY <1>1, <2>1 DEF Threads
  <2>2. CASE Update
    BY <2>2, UpdateStep
  <2>3. CASE Console
    BY <2>3, ConsoleStep
  <2>4. CASE Clear
    BY <2>4, ClearStep
  <2>5. CASE Shutdown \/ Join
    BY <2>5, PlainStepsOfOne
  <2> QED BY <1>3, <2>1, <2>2, <2>3, <2>4, <2>5 DEF Game
<1>4. ASSUME NEW s \in Sockets, Handler(s) PROVE IInv'
  <2>1. PICK t \in Threads : Interrupt(t, s)
    BY <1>4 DEF Handler
  <2>2. CASE s \in active
    BY <2>1, <2>2, InterruptStep
  <2>3. CASE s \notin active
    <3>1. UNCHANGED <<holder, tasks, connections, script>>
      BY <2>1, <2>3 DEF Interrupt, socketVars
    <3> QED BY <3>1, OtherStep
  <2> QED BY <2>2, <2>3
<1>5. CASE GameCalls \/ GameStops
  BY <1>5, GameBegins
<1>6. ASSUME NEW c \in Clients, Connects(c) \/ Sends(c) \/ Resets(c) PROVE IInv'
  <2>1. UNCHANGED <<holder, tasks, connections, script>>
    BY <1>6 DEF Connects, Sends, Resets, Raise
  <2> QED BY <2>1, OtherStep
<1>7. CASE UNCHANGED vars
  <2>1. UNCHANGED <<holder, tasks, connections, script>>
    BY <1>7 DEF vars, socketVars, taskVars
  <2> QED BY <2>1, OtherStep
<1> QED BY <1>2, <1>3, <1>4, <1>5, <1>6, <1>7 DEF Next

(* Each thread takes the mutexes in their order, whatever it is            *)
(* interrupted in, and the game keeps mConnectionMutex until it has sent   *)
(* (HSServer.cpp, HSClientConnection.cpp, HSSocketPosix.cpp,               *)
(* HSSocketManagerPosix.cpp).                                              *)
THEOREM MutexesAreOrdered == Spec => []IInv
BY InitiallyProper, StepIsProper, PTL DEF Spec

(* A thread that waits for a mutex holds only mutexes before it, but for   *)
(* the one that it waits for itself.                                       *)
LEMMA WaitsInOrder ==
  ASSUME IInv, NEW t \in Threads, NEW u \in Threads, t # u, Waits(t, u)
  PROVE  /\ Subject(t) \in Held(u)
         /\ \A m \in Held(t) : Rank(m) < Rank(Subject(t))
<1> DEFINE s == script[t]
           m1 == Subject(t)
<1>1. /\ s # <<>> /\ s[1] \in Operations /\ s[1][1] = "lock" /\ m1 = s[1][2] /\ holder[m1] = u
      /\ Proper(s, Held(t)) /\ Held(t) \subseteq Mutexes
  BY DoingOne DEF Waits, Subject, Doing
<1>2. s[1] = Lock(m1) /\ m1 \in Mutexes
  BY <1>1 DEF Operations, UnlockAndReturn, Lock
<1> HIDE DEF m1
<1>3. m1 \in Held(u) /\ m1 \notin Held(t)
  BY <1>1, <1>2, HeldApart DEF Held
<1>4. ASSUME NEW m \in Held(t) PROVE Rank(m) < Rank(m1)
  <2>1. Closes(s[1], m) \/ Above(s[1], m)
    BY <1>1, FirstOperation
  <2>2. ~Closes(s[1], m) /\ s[1] # Lock(m)
    BY <1>2, <1>3, <1>4 DEF Closes, Lock
  <2>3. Rank(m) < Reach(s[1])
    BY <2>1, <2>2 DEF Above
  <2> QED BY <1>2, <2>3, Reaches
<1> QED BY <1>3, <1>4 DEF m1

(* The game and the worker never wait for each other's mutexes, for any    *)
(* number of clients and wherever the signal handler interrupts them       *)
(* (HSServer::UpdateClients, HSSocketPosix::Send, HSWorkerThread::Run).    *)
THEOREM NoDeadlyEmbrace == Spec => []NoCircularWait
<1>1. IInv => NoCircularWait
  <2> SUFFICES ASSUME IInv, Waits("game", "worker"), Waits("worker", "game") PROVE FALSE
    BY DEF NoCircularWait
  <2>0. "game" \in Threads /\ "worker" \in Threads /\ "game" # "worker"
    BY DEF Threads
  <2>1. /\ Subject("game") \in Held("worker")
        /\ \A m \in Held("game") : Rank(m) < Rank(Subject("game"))
    BY <2>0, WaitsInOrder
  <2>2. /\ Subject("worker") \in Held("game")
        /\ \A m \in Held("worker") : Rank(m) < Rank(Subject("worker"))
    BY <2>0, WaitsInOrder
  <2> QED BY <2>1, <2>2, Reaches
<1> QED BY <1>1, MutexesAreOrdered, PTL

(* The game sends only to connections that still exist: it keeps           *)
(* mConnectionMutex from looking at the list until it has sent             *)
(* (HSServer::UpdateClients, HSServer::ClientDisconnected).                *)
THEOREM ConnectionsOutlastTheirUse == Spec => []GameUsesConnections
<1>1. IInv => GameUsesConnections
  <2> SUFFICES ASSUME IInv, NEW c \in Clients, NEW k \in {"send", "append"}, Doing("game", k),
                      Subject("game") = c
               PROVE  c \in connections
    BY DEF GameUsesConnections
  <2>1. /\ script["game"] # <<>> /\ script["game"][1] = <<k, c>> /\ 1 \in DOMAIN script["game"]
        /\ Listed(script["game"], connections, Held("game"))
    <3>1. "game" \in Threads
      BY DEF Threads
    <3> QED BY <3>1, DoingOne, FirstOperation DEF IInv
  <2> QED BY <2>1 DEF Listed
<1> QED BY <1>1, MutexesAreOrdered, PTL
-----------------------------------------------------------------------------
(* Sequences of deeds, and what comes of them.                             *)

(* What is made of start when deed is done for one after the other of the  *)
(* members of a sequence, after k of them.                                 *)
GoesAlong(g, deed, start, s) ==
  g = [k \in 0..Len(s) |-> IF k = 0 THEN start ELSE deed[s[k]][g[k - 1]]]

(* After all of them.                                                      *)
Outcome(deed, start, s) == (CHOOSE g : GoesAlong(g, deed, start, s))[Len(s)]

(* Such a run exists, and stays among the things that the deeds make of    *)
(* each other.                                                             *)
LEMMA RunExists ==
  ASSUME NEW P, NEW S, NEW deed \in [P -> [S -> S]], NEW start \in S, NEW s \in Seq(P)
  PROVE  \E g : g \in [0..Len(s) -> S] /\ GoesAlong(g, deed, start, s)
<1> DEFINE n == Len(s)
           step == [k \in 0..n |-> IF k = 0 THEN [v \in S |-> v] ELSE deed[s[k]]]
<1>1. n \in Nat /\ \A k \in 1..n : s[k] \in P
  BY LenProperties, ElementOfSeq
<1>2. 0 \in Int /\ n \in Int /\ 0 <= n
  BY <1>1
<1>3. step \in [0..n -> [S -> S]]
  <2> SUFFICES ASSUME NEW k \in 0..n
               PROVE  (IF k = 0 THEN [v \in S |-> v] ELSE deed[s[k]]) \in [S -> S]
    OBVIOUS
  <2>1. k # 0 => k \in 1..n
    BY <1>1
  <2> QED BY <1>1, <2>1
<1>4. \A k \in 0..n : k # 0 => step[k] = deed[s[k]]
  OBVIOUS
<1> HIDE DEF step, n
<1> DEFINE zero == 0
<1>5. \E g : CountsOn(g, zero, n, S, start, step)
  <2>1. zero \in Int /\ zero <= n /\ step \in [zero..n -> [S -> S]]
    BY <1>2, <1>3
  <2> HIDE DEF zero
  <2> QED BY <1>2, <2>1, RecursionSolved
<1>6. PICK g : CountsOn(g, zero, n, S, start, step)
  BY <1>5
<1>7. g \in [0..n -> S] /\ \A k \in 0..n : g[k] = IF k = 0 THEN start ELSE step[k][g[k - 1]]
  BY <1>6 DEF CountsOn
<1>8. g = [k \in 0..n |-> IF k = 0 THEN start ELSE deed[s[k]][g[k - 1]]]
  BY <1>4, <1>7
<1> QED BY <1>7, <1>8 DEF GoesAlong, n

(* The first n of t are those of s after the first j.                      *)
Follows(t, s, j, n) ==
  /\ Len(s) \in Nat /\ Len(t) \in Nat /\ j \in Nat /\ n \in Nat
  /\ j + n <= Len(s) /\ n <= Len(t)
  /\ \A k \in 1..n : s[j + k] = t[k]

(* From j on g is as h is up to n.                                         *)
GoesWith(g, j, h, n) == \A k \in 0..n : g[j + k] = h[k]

(* From where one run has got to, another goes along the same.             *)
LEMMA RunsGoOn ==
  ASSUME NEW deed, NEW s, NEW t, NEW start, NEW g, NEW h, NEW j, NEW n, Follows(t, s, j, n),
         GoesAlong(g, deed, start, s), GoesAlong(h, deed, g[j], t)
  PROVE  GoesWith(g, j, h, n)
<1> DEFINE P == {k \in 0..n : g[j + k] = h[k]}
<1>1. /\ Len(s) \in Nat /\ Len(t) \in Nat /\ j \in Nat /\ n \in Nat
      /\ j + n <= Len(s) /\ n <= Len(t)
      /\ \A k \in 1..n : s[j + k] = t[k]
  BY DEF Follows
<1>2. \A k \in 0..Len(s) : g[k] = IF k = 0 THEN start ELSE deed[s[k]][g[k - 1]]
  <2> DEFINE f == [k \in 0..Len(s) |-> IF k = 0 THEN start ELSE deed[s[k]][g[k - 1]]]
  <2>1. g = f
    BY DEF GoesAlong
  <2>2. \A k \in 0..Len(s) : f[k] = IF k = 0 THEN start ELSE deed[s[k]][g[k - 1]]
    OBVIOUS
  <2> HIDE DEF f
  <2> QED BY <2>1, <2>2
<1>3. \A k \in 0..Len(t) : h[k] = IF k = 0 THEN g[j] ELSE deed[t[k]][h[k - 1]]
  <2> DEFINE f == [k \in 0..Len(t) |-> IF k = 0 THEN g[j] ELSE deed[t[k]][h[k - 1]]]
  <2>1. h = f
    BY DEF GoesAlong
  <2>2. \A k \in 0..Len(t) : f[k] = IF k = 0 THEN g[j] ELSE deed[t[k]][h[k - 1]]
    OBVIOUS
  <2> HIDE DEF f
  <2> QED BY <2>1, <2>2
<1>4. 0 \in P
  BY <1>1, <1>3
<1>5. ASSUME NEW k \in 0..n, k # 0, k - 1 \in P
      PROVE  k \in P
  <2>1. k \in 0..Len(t) /\ j + k \in 0..Len(s) /\ j + k # 0 /\ k \in 1..n
        /\ (j + k) - 1 = j + (k - 1)
    BY <1>1, <1>5
  <2>2. g[j + k] = deed[s[j + k]][g[(j + k) - 1]]
    BY <1>2, <2>1
  <2>3. h[k] = deed[t[k]][h[k - 1]]
    BY <1>3, <1>5, <2>1
  <2>4. g[(j + k) - 1] = h[k - 1] /\ s[j + k] = t[k]
    BY <1>1, <1>5, <2>1
  <2> QED BY <2>2, <2>3, <2>4
<1> DEFINE zero == 0
<1>6. zero \in Int /\ zero \in P /\ n \in Int /\ (\A k \in zero..n : k # zero /\ k - 1 \in P => k \in P)
  BY <1>1, <1>4, <1>5
<1>7. zero..n \subseteq P
  <2> HIDE DEF P, zero
  <2> QED BY <1>6, IntervalInduction
<1> QED BY <1>7 DEF GoesWith

(* A run, step by step. *)
LEMMA RunFrom ==
  ASSUME NEW g, NEW deed, NEW start, NEW s, Len(s) \in Nat, GoesAlong(g, deed, start, s)
  PROVE  /\ g[0] = start
         /\ \A k \in 1..Len(s) : g[k] = deed[s[k]][g[k - 1]]
<1> DEFINE f == [k \in 0..Len(s) |-> IF k = 0 THEN start ELSE deed[s[k]][g[k - 1]]]
<1>1. g = f
  BY DEF GoesAlong
<1>2. f[0] = start /\ \A k \in 1..Len(s) : f[k] = deed[s[k]][g[k - 1]]
  OBVIOUS
<1> HIDE DEF f
<1> QED BY <1>1, <1>2

(* Any run tells the outcome. *)
LEMMA OutcomeOfRun ==
  ASSUME NEW g, NEW deed, NEW start, NEW s, Len(s) \in Nat, GoesAlong(g, deed, start, s)
  PROVE  g[Len(s)] = Outcome(deed, start, s)
<1> DEFINE h == CHOOSE h : GoesAlong(h, deed, start, s)
           n == Len(s)
           zero == 0
<1>1. GoesAlong(h, deed, start, s)
  OBVIOUS
<1>2. Outcome(deed, start, s) = h[n]
  BY DEF Outcome
<1> HIDE DEF h
<1>3. g[zero] = start
  BY RunFrom
<1>4. Follows(s, s, zero, n)
  BY DEF Follows
<1>5. GoesAlong(h, deed, g[zero], s)
  BY <1>1, <1>3
<1>6. zero + n = n /\ n \in 0..n
  OBVIOUS
<1> HIDE DEF n, zero
<1>7. GoesWith(g, zero, h, n)
  BY <1>4, <1>5, RunsGoOn
<1>8. g[n] = h[n]
  BY <1>6, <1>7 DEF GoesWith
<1> QED BY <1>2, <1>8 DEF n

(* The outcome is one of the things that the deeds make. *)
LEMMA OutcomeTyped ==
  ASSUME NEW P, NEW S, NEW deed \in [P -> [S -> S]], NEW start \in S, NEW s \in Seq(P)
  PROVE  Outcome(deed, start, s) \in S
<1>1. PICK g : g \in [0..Len(s) -> S] /\ GoesAlong(g, deed, start, s)
  BY RunExists
<1>2. Len(s) \in Nat /\ Len(s) \in 0..Len(s)
  BY LenProperties
<1>3. g[Len(s)] = Outcome(deed, start, s)
  BY <1>1, <1>2, OutcomeOfRun
<1> QED BY <1>1, <1>2, <1>3

(* Nothing done. *)
LEMMA OutcomeOfNothing ==
  ASSUME NEW P, NEW S, NEW deed \in [P -> [S -> S]], NEW start \in S
  PROVE  Outcome(deed, start, <<>>) = start
<1> DEFINE s == <<>>
<1>1. s \in Seq(P) /\ Len(s) = 0
  BY EmptySeq
<1> HIDE DEF s
<1>2. PICK g : g \in [0..Len(s) -> S] /\ GoesAlong(g, deed, start, s)
  BY <1>1, RunExists
<1>3. g[0] = start /\ g[Len(s)] = Outcome(deed, start, s)
  BY <1>1, <1>2, RunFrom, OutcomeOfRun
<1> QED BY <1>1, <1>3 DEF s

(* The first done. *)
LEMMA OutcomeOfTail ==
  ASSUME NEW P, NEW S, NEW deed \in [P -> [S -> S]], NEW start \in S, NEW s \in Seq(P), s # <<>>
  PROVE  Outcome(deed, start, s) = Outcome(deed, deed[Head(s)][start], Tail(s))
<1> DEFINE t == Tail(s)
           one == 1
           n == Len(t)
<1>1. /\ Len(s) \in Nat /\ Len(s) # 0 /\ t \in Seq(P) /\ Len(t) = Len(s) - 1
      /\ \A k \in 1..Len(t) : t[k] = s[k + 1]
      /\ Head(s) = s[1] /\ Head(s) \in P
  BY HeadTailProperties, LenProperties, EmptySeq
<1> HIDE DEF t
<1>2. PICK g : g \in [0..Len(s) -> S] /\ GoesAlong(g, deed, start, s)
  BY RunExists
<1>3. Len(s) \in Nat
  BY LenProperties
<1>4. g[one] = deed[Head(s)][start]
  <2>1. g[0] = start /\ \A k \in 1..Len(s) : g[k] = deed[s[k]][g[k - 1]]
    BY <1>3, <1>2, RunFrom
  <2>2. 1 \in 1..Len(s) /\ 1 - 1 = 0
    BY <1>1
  <2>3. g[1] = deed[s[1]][g[1 - 1]]
    BY <2>1, <2>2
  <2> QED BY <1>1, <2>1, <2>2, <2>3
<1>5. g[one] \in S
  BY <1>1, <1>2
<1>6. Follows(t, s, one, n) /\ one + n = Len(s) /\ n \in 0..n
  BY <1>1 DEF Follows
<1> HIDE DEF one, n
<1>7. PICK h : h \in [0..Len(t) -> S] /\ GoesAlong(h, deed, g[one], t)
  BY <1>1, <1>5, RunExists
<1>8. GoesWith(g, one, h, n)
  BY <1>2, <1>6, <1>7, RunsGoOn
<1>9. g[Len(s)] = h[n]
  BY <1>6, <1>8 DEF GoesWith
<1>10. h[n] = Outcome(deed, g[one], t)
  BY <1>6, <1>7, OutcomeOfRun DEF n
<1>11. g[Len(s)] = Outcome(deed, start, s)
  BY <1>1, <1>2, OutcomeOfRun
<1> QED BY <1>4, <1>9, <1>10, <1>11 DEF t

(* One sequence done after the other. *)
LEMMA OutcomeOfConcat ==
  ASSUME NEW P, NEW S, NEW deed \in [P -> [S -> S]], NEW start \in S,
         NEW s \in Seq(P), NEW t \in Seq(P)
  PROVE  Outcome(deed, start, s \o t) = Outcome(deed, Outcome(deed, start, s), t)
<1> DEFINE u == s \o t
           m == Len(s)
           n == Len(t)
           zero == 0
<1>1. /\ m \in Nat /\ n \in Nat /\ u \in Seq(P) /\ Len(u) = m + n
      /\ \A k \in 1..(m + n) : u[k] = IF k <= m THEN s[k] ELSE t[k - m]
  BY ConcatProperties, LenProperties
<1> HIDE DEF u
<1>2. PICK g : g \in [0..Len(u) -> S] /\ GoesAlong(g, deed, start, u)
  BY <1>1, RunExists
<1>3. PICK h : h \in [0..Len(s) -> S] /\ GoesAlong(h, deed, start, s)
  BY RunExists
<1>4. g[zero] = start
  BY <1>1, <1>2, RunFrom
<1>5. Follows(s, u, zero, m) /\ m \in 0..m /\ zero + m = m
  BY <1>1 DEF Follows
<1>6. Follows(t, u, m, n) /\ n \in 0..n
  <2>1. ASSUME NEW k \in 1..n PROVE u[m + k] = t[k]
    <3>1. m + k \in 1..(m + n) /\ ~(m + k <= m) /\ (m + k) - m = k
      BY <1>1
    <3> QED BY <1>1, <3>1
  <2> QED BY <1>1, <2>1 DEF Follows
<1>7. Len(u) \in Nat /\ Len(s) \in Nat /\ Len(t) \in Nat
  BY <1>1
<1> HIDE DEF zero, m, n
<1>8. g[m] = h[m]
  <2>1. GoesAlong(h, deed, g[zero], s)
    BY <1>3, <1>4
  <2>2. GoesWith(g, zero, h, m)
    BY <1>2, <1>5, <2>1, RunsGoOn
  <2> QED BY <1>5, <2>2 DEF GoesWith
<1>9. h[m] = Outcome(deed, start, s)
  BY <1>7, <1>3, OutcomeOfRun DEF m
<1>10. h[m] \in S
  BY <1>3, <1>5 DEF m
<1>11. PICK q : q \in [0..Len(t) -> S] /\ GoesAlong(q, deed, h[m], t)
  BY <1>10, RunExists
<1>12. g[m + n] = q[n]
  <2>1. GoesAlong(q, deed, g[m], t)
    BY <1>8, <1>11
  <2>2. GoesWith(g, m, q, n)
    BY <1>2, <1>6, <2>1, RunsGoOn
  <2> QED BY <1>6, <2>2 DEF GoesWith
<1>13. q[n] = Outcome(deed, h[m], t)
  BY <1>7, <1>11, OutcomeOfRun DEF n
<1>14. g[Len(u)] = Outcome(deed, start, u)
  BY <1>7, <1>2, OutcomeOfRun
<1> QED BY <1>1, <1>9, <1>12, <1>13, <1>14 DEF u

(* The outcome of a single deed. *)
LEMMA OutcomeOfOne ==
  ASSUME NEW P, NEW S, NEW deed \in [P -> [S -> S]], NEW start \in S, NEW p \in P
  PROVE  Outcome(deed, start, <<p>>) = deed[p][start]
<1> DEFINE s == <<p>>
<1>1. s \in Seq(P) /\ s # <<>> /\ Head(s) = p /\ Tail(s) = <<>>
  OBVIOUS
<1>2. deed[p][start] \in S
  OBVIOUS
<1> HIDE DEF s
<1>3. Outcome(deed, start, s) = Outcome(deed, deed[Head(s)][start], Tail(s))
  BY <1>1, OutcomeOfTail
<1>4. Outcome(deed, deed[p][start], <<>>) = deed[p][start]
  BY <1>2, OutcomeOfNothing
<1> QED BY <1>1, <1>3, <1>4 DEF s

(* The outcome of one deed more. *)
LEMMA OutcomeOfAppend ==
  ASSUME NEW P, NEW S, NEW deed \in [P -> [S -> S]], NEW start \in S, NEW s \in Seq(P), NEW p \in P
  PROVE  Outcome(deed, start, Append(s, p)) = deed[p][Outcome(deed, start, s)]
<1> DEFINE o == <<p>>
           mid == Outcome(deed, start, s)
<1>1. Append(s, p) = s \o o
  BY AppendIsConcat
<1>2. mid \in S
  BY OutcomeTyped
<1>3. o \in Seq(P) /\ Outcome(deed, mid, o) = deed[p][mid]
  <2> HIDE DEF mid
  <2> QED BY <1>2, OutcomeOfOne
<1> HIDE DEF o
<1>4. Outcome(deed, start, s \o o) = Outcome(deed, mid, o)
  BY <1>3, OutcomeOfConcat
<1> QED BY <1>1, <1>3, <1>4

(* Deeds that change nothing. *)
LEMMA OutcomeOfRest ==
  ASSUME NEW P, NEW S, NEW deed \in [P -> [S -> S]], NEW start \in S, NEW s \in Seq(P),
         \A k \in 1..Len(s) : deed[s[k]][start] = start
  PROVE  Outcome(deed, start, s) = start
<1> DEFINE n == Len(s)
           zero == 0
<1>1. PICK g : g \in [0..Len(s) -> S] /\ GoesAlong(g, deed, start, s)
  BY RunExists
<1>2. Len(s) \in Nat
  BY LenProperties
<1>3. g[0] = start /\ \A k \in 1..Len(s) : g[k] = deed[s[k]][g[k - 1]]
  BY <1>1, <1>2, RunFrom
<1> DEFINE Q == {k \in 0..n : g[k] = start}
<1>4. zero \in Q /\ zero \in Int /\ n \in Int
  BY <1>2, <1>3
<1>5. ASSUME NEW k \in zero..n, k # zero, k - 1 \in Q
      PROVE  k \in Q
  <2>1. k \in 1..Len(s)
    BY <1>2, <1>5
  <2>2. g[k - 1] = start
    BY <1>5
  <2>3. g[k] = start
    BY <1>3, <2>1, <2>2
  <2> QED BY <2>3
<1>6. n \in zero..n
  BY <1>2
<1>7. zero..n \subseteq Q
  <2> HIDE DEF Q, zero, n
  <2> QED BY <1>4, <1>5, IntervalInduction
<1>8. g[Len(s)] = start
  BY <1>6, <1>7
<1> QED BY <1>1, <1>2, <1>8, OutcomeOfRun

-----------------------------------------------------------------------------
(* ClientView: what the packets hold.                                      *)

(* What a flagged packet brings, and what the receiver makes of it. *)
LEMMA ByteStreamTyped ==
  ASSUME NEW F, NEW V, NEW new \in [F -> V], NEW latest
  PROVE  ByteStream(new, latest) \in Parts(F, V)
<1>1. CASE latest = Nothing
  <2>1. F \in SUBSET F
    OBVIOUS
  <2> QED BY <1>1, <2>1 DEF ByteStream, Parts
<1>2. CASE latest # Nothing
  <2> DEFINE changed == {f \in DOMAIN new : ~Same(f, new[f], latest[f])}
  <2>1. changed \in SUBSET F /\ \A f \in changed : new[f] \in V
    OBVIOUS
  <2>2. ByteStream(new, latest) = [f \in changed |-> new[f]]
    BY <1>2 DEF ByteStream
  <2> HIDE DEF changed
  <2>3. [f \in changed |-> new[f]] \in [changed -> V]
    BY <2>1
  <2> QED BY <2>1, <2>2, <2>3 DEF Parts
<1> QED BY <1>1, <1>2

(* What the client puts together from the parts that were sent and the     *)
(* fields it had has every field.                                          *)
LEMMA RetrievedTyped ==
  ASSUME NEW F, NEW V, NEW sent \in Parts(F, V), NEW old \in [F -> V]
  PROVE  Retrieved(sent, old) \in [F -> V]
<1>1. PICK some \in SUBSET F : sent \in [some -> V]
  BY DEF Parts
<1> QED BY <1>1 DEF Retrieved

(* packets holds the packet of each member of S, once. *)
ListsEach(packets, S, packet) ==
  \E n \in Nat : \E ids \in [1..n -> S] :
    /\ packets = [k \in 1..n |-> packet[ids[k]]]
    /\ \A k, l \in 1..n : ids[k] = ids[l] => k = l
    /\ \A i \in S : \E k \in 1..n : ids[k] = i

(* The loop over a set of contacts sends the packet of each of them, once. *)
LEMMA InSomeOrderLists ==
  ASSUME NEW S, IsFiniteSet(S), NEW P, NEW packet \in [S -> P]
  PROVE  ListsEach(InSomeOrder(packet), S, packet)
<1> DEFINE n == Cardinality(S)
           ids == SetToSeq(S)
<1>1. n \in Nat /\ ExistsBijection(1..n, S)
  BY FS_CardinalityType
<1>2. PICK f \in [1..n -> S] : IsInjective(f)
  BY <1>1 DEF ExistsBijection, Bijection, Injection
<1>3. ids \in [1..n -> S] /\ IsInjective(ids)
  BY <1>2 DEF SetToSeq
<1> HIDE DEF ids
<1>4. ids \in Injection(1..n, S)
  BY <1>3 DEF Injection
<1>5. Cardinality(1..n) = n
  BY <1>1, FS_Interval
<1>6. ids \in Surjection(1..n, S)
  BY <1>4, <1>5, FS_Injection
<1>7. \A k, l \in 1..n : ids[k] = ids[l] => k = l
  BY <1>3 DEF IsInjective
<1>8. \A i \in S : \E k \in 1..n : ids[k] = i
  BY <1>6 DEF Surjection
<1>9. InSomeOrder(packet) = [k \in 1..n |-> packet[ids[k]]]
  <2>1. DOMAIN packet = S /\ DOMAIN ids = 1..n
    BY <1>3
  <2> QED BY <2>1 DEF InSomeOrder, ids
<1> HIDE DEF n
<1> QED BY <1>1, <1>3, <1>7, <1>8, <1>9 DEF ListsEach

(* The packets of a loop are a sequence of packets. *)
LEMMA InSomeOrderTyped ==
  ASSUME NEW S, IsFiniteSet(S), NEW P, NEW packet \in [S -> P]
  PROVE  InSomeOrder(packet) \in Seq(P)
<1>1. ListsEach(InSomeOrder(packet), S, packet)
  BY InSomeOrderLists
<1>2. PICK n \in Nat : \E ids \in [1..n -> S] :
                         InSomeOrder(packet) = [k \in 1..n |-> packet[ids[k]]]
  BY <1>1 DEF ListsEach
<1>3. PICK ids \in [1..n -> S] : InSomeOrder(packet) = [k \in 1..n |-> packet[ids[k]]]
  BY <1>2
<1>4. \A k \in 1..n : packet[ids[k]] \in P
  OBVIOUS
<1>5. [k \in 1..n |-> packet[ids[k]]] \in Seq(P)
  BY <1>4, IsASeq
<1> QED BY <1>3, <1>5

(* HSClientConnection::UpdateClient sends packets of the navigation. *)
LEMMA NavPacketsTyped ==
  ASSUME NEW n \in [NavFields -> Values]
  PROVE  NavPackets(n) \in Seq(Packets)
<1>1. ByteStream(n, last) \in Parts(NavFields, Values)
  BY ByteStreamTyped
<1>2. CASE ByteStream(n, last) = <<>>
  BY <1>2, EmptySeq DEF NavPackets
<1>3. CASE ByteStream(n, last) # <<>>
  <2> DEFINE p == [type |-> "navstat", fields |-> ByteStream(n, last)]
  <2>1. p \in Packets
    BY <1>1 DEF Packets
  <2>2. NavPackets(n) = <<p>>
    BY <1>3 DEF NavPackets
  <2> HIDE DEF p
  <2> QED BY <2>1, <2>2
<1> QED BY <1>2, <1>3

(* What a computer may find, contact by contact. *)
Scans == [Ids -> Sights \cup {Nothing}]

(* The contacts of which there is anything to send and those that are      *)
(* gone, with the packet for each.                                         *)
Differ(p) == {i \in Ids : p[i] # Nothing /\ ByteStream(p[i], current[i]) # <<>>}
Vanished(p) == {i \in Ids : p[i] = Nothing /\ current[i] # Nothing}
DifferPacket(p) ==
  [i \in Differ(p) |-> ContactPacket(i, ByteStream(p[i], current[i]), FALSE)]
VanishedPacket(p, garbage) ==
  [i \in Vanished(p) |-> ContactPacket(i, garbage, TRUE)]

Garbage == {<<>>, [object |-> Nothing]}

ContactSights ==
  [type : {"contact"}, id : Ids, removed : BOOLEAN,
   fields : Parts(ContactFields, Values \cup {Nothing})]

(* HSClientConnection::UpdateClient sends the contacts that differ, and    *)
(* then those that vanished.                                               *)
LEMMA ContactPacketsSplit ==
  ASSUME NEW p, NEW garbage
  PROVE  ContactPackets(p, garbage)
           = InSomeOrder(DifferPacket(p)) \o InSomeOrder(VanishedPacket(p, garbage))
BY DEF ContactPackets, Differ, Vanished, DifferPacket, VanishedPacket

(* The packet of a contact that differs is one of a contact. *)
LEMMA DifferPacketTyped ==
  ASSUME ClientViewAssumption, NEW p \in Scans
  PROVE  DifferPacket(p) \in [Differ(p) -> ContactSights]
<1> SUFFICES ASSUME NEW i \in Differ(p)
             PROVE  ContactPacket(i, ByteStream(p[i], current[i]), FALSE) \in ContactSights
  BY DEF DifferPacket
<1>1. i \in Ids /\ p[i] \in [ContactFields -> Values]
  BY DEF Scans, Sights, Differ
<1>2. p[i] \in [ContactFields -> Values \cup {Nothing}]
  BY <1>1
<1>3. ByteStream(p[i], current[i]) \in Parts(ContactFields, Values \cup {Nothing})
  BY <1>2, ByteStreamTyped
<1> QED BY <1>1, <1>3 DEF ContactPacket, ContactSights

(* So is the packet of a contact that vanished, whatever its field holds. *)
LEMMA VanishedPacketTyped ==
  ASSUME NEW p, NEW garbage \in Garbage
  PROVE  VanishedPacket(p, garbage) \in [Vanished(p) -> ContactSights]
<1>1. garbage \in Parts(ContactFields, Values \cup {Nothing})
  <2> DEFINE V == Values \cup {Nothing}
  <2>1. CASE garbage = <<>>
    <3>1. <<>> \in [{} -> V] /\ {} \in SUBSET ContactFields
      OBVIOUS
    <3> QED BY <2>1, <3>1 DEF Parts
  <2>2. CASE garbage = [object |-> Nothing]
    <3>1. garbage \in [{"object"} -> V] /\ {"object"} \in SUBSET ContactFields
      BY <2>2 DEF ContactFields
    <3> QED BY <3>1 DEF Parts
  <2> QED BY <2>1, <2>2 DEF Garbage
<1> QED BY <1>1 DEF VanishedPacket, Vanished, ContactPacket, ContactSights

(* The packets of both loops are packets of contacts. *)
LEMMA ContactPacketsTyped ==
  ASSUME ClientViewAssumption, NEW p \in Scans, NEW garbage \in Garbage
  PROVE  /\ InSomeOrder(DifferPacket(p)) \in Seq(ContactSights)
         /\ InSomeOrder(VanishedPacket(p, garbage)) \in Seq(ContactSights)
         /\ ContactPackets(p, garbage) \in Seq(ContactSights)
<1>1. IsFiniteSet(Differ(p)) /\ IsFiniteSet(Vanished(p))
  BY FS_Subset DEF ClientViewAssumption, Differ, Vanished
<1>2. InSomeOrder(DifferPacket(p)) \in Seq(ContactSights)
  BY <1>1, DifferPacketTyped, InSomeOrderTyped
<1>3. InSomeOrder(VanishedPacket(p, garbage)) \in Seq(ContactSights)
  BY <1>1, VanishedPacketTyped, InSomeOrderTyped
<1> QED BY <1>2, <1>3, ContactPacketsSplit, ConcatProperties

(* Each packet that the server sends is a packet that the client may read. *)
LEMMA PacketsKnown ==
  /\ \A m \in {"welcome", "accepted", "denied", "noconsole"} : Message(m) \in Packets
  /\ \A s \in Ships \cup {Nothing} : Manning(s) \in Packets
  /\ ContactSights \subseteq Packets
BY DEF Packets, Manning, ContactSights

(* What UpdateClient sends. *)
LEMMA SightsTyped ==
  ASSUME ClientViewAssumption, NEW n \in NavStats, NEW p \in Scans,
         NEW garbage \in Garbage
  PROVE  NavPackets(n) \in Seq(Packets) /\ ContactPackets(p, garbage) \in Seq(Packets)
<1>1. n \in [NavFields -> Values]
  BY DEF ClientViewAssumption, Bearings
<1>2. NavPackets(n) \in Seq(Packets)
  BY <1>1, NavPacketsTyped
<1>3. ContactPackets(p, garbage) \in Seq(ContactSights)
  BY ContactPacketsTyped
<1>4. ContactSights \subseteq Packets
  BY PacketsKnown
<1>5. ContactPackets(p, garbage) \in Seq(Packets)
  BY <1>3, <1>4, SeqMonotonic
<1> QED BY <1>2, <1>5

(* After the packet of a contact the client knows every contact by all its *)
(* fields, or not at all.                                                  *)
LEMMA HandleContactTyped ==
  ASSUME NEW p \in Packets, p.type = "contact",
         NEW known \in [Ids -> [ContactFields -> Values \cup {Nothing}] \cup {Nothing}]
  PROVE  /\ p \in ContactSights
         /\ HandleContactPacket(p, known)
              \in [Ids -> [ContactFields -> Values \cup {Nothing}] \cup {Nothing}]
<1> DEFINE Looks == [ContactFields -> Values \cup {Nothing}]
           old == IF known[p.id] = Nothing THEN [f \in ContactFields |-> Nothing]
                  ELSE known[p.id]
<1>1. p \in ContactSights
  BY DEF Packets, Message, ShipInfo, ContactSights
<1>2. p.id \in Ids /\ p.fields \in Parts(ContactFields, Values \cup {Nothing})
  BY <1>1 DEF ContactSights
<1>3. old \in Looks
  BY <1>2
<1>4. Retrieved(p.fields, old) \in Looks
  <2> HIDE DEF old
  <2> QED BY <1>2, <1>3, RetrievedTyped
<1>5. HandleContactPacket(p, known)
        = IF p.removed /\ known[p.id] # Nothing THEN [known EXCEPT ![p.id] = Nothing]
          ELSE [known EXCEPT ![p.id] = Retrieved(p.fields, old)]
  BY DEF HandleContactPacket
<1> HIDE DEF old
<1> QED BY <1>1, <1>2, <1>4, <1>5

(* After a packet of the navigation the client knows every field of it. *)
LEMMA HandleNavTyped ==
  ASSUME NEW p \in Packets, p.type = "navstat", NEW known \in [NavFields -> Values]
  PROVE  HandleNavPacket(p, known) \in [NavFields -> Values]
<1>1. p.fields \in Parts(NavFields, Values)
  BY DEF Packets, Message, ShipInfo
<1> QED BY <1>1, RetrievedTyped DEF HandleNavPacket

(* What the client knows of contacts and of the ship's position and hull.  *)
Views == [contacts : [Ids -> [ContactFields -> Values \cup {Nothing}] \cup {Nothing}],
          nav : [NavFields -> Values]]

(* Each packet makes a view of a view. *)
LEMMA NotedTyped ==
  ASSUME NEW p \in Packets, NEW v \in Views
  PROVE  Noted(p, v) \in Views
<1>1. v.contacts \in [Ids -> [ContactFields -> Values \cup {Nothing}] \cup {Nothing}]
      /\ v.nav \in [NavFields -> Values]
  BY DEF Views
<1>2. (IF p.type = "contact" THEN HandleContactPacket(p, v.contacts) ELSE v.contacts)
        \in [Ids -> [ContactFields -> Values \cup {Nothing}] \cup {Nothing}]
  BY <1>1, HandleContactTyped
<1>3. (IF p.type = "navstat" THEN HandleNavPacket(p, v.nav) ELSE v.nav) \in [NavFields -> Values]
  BY <1>1, HandleNavTyped
<1> QED BY <1>2, <1>3 DEF Noted, Views

(* Membership is a truth value. *)
LEMMA MembershipIsBoolean == \A x, S : (x \in S) \in BOOLEAN
BY SMT

(* A sequence of one member. *)
LEMMA SingletonSeq ==
  \A S : \A e \in S : <<e>> \in Seq(S)
OBVIOUS

(* A packet that tells of a ship tells of one that exists. *)
LEMMA PacketTypes ==
  ASSUME NEW p \in Packets
  PROVE  p.type = "shipinfo" => p = ShipInfo(p.name) /\ p.name \in Ships
BY DEF Packets, Message, ShipInfo

(* What the client answers to each packet that it reads. *)
LEMMA RepliesKnown ==
  ASSUME NEW m, NEW r \in Replies(m)
  PROVE  IF m = "welcome" THEN r \in {<<"login">>, <<"wrong login">>}
         ELSE IF m = "accepted" THEN r = <<"request">> ELSE r = <<>>
<1>1. CASE m = "welcome"
  BY <1>1 DEF Replies
<1>2. CASE m = "accepted"
  BY <1>2 DEF Replies
<1>3. CASE m \notin {"welcome", "accepted"}
  BY <1>3 DEF Replies
<1> QED BY <1>1, <1>2, <1>3

(* The packet that the next one is compared with is the new one or the old *)
(* one, and the changes that it hides are a number.                        *)
LEMMA LatestTyped ==
  ASSUME NEW S, NEW new \in S, NEW latest \in S, NEW n \in Nat
  PROVE  Latest(new, latest) \in S /\ Unsent(new, latest, n) \in Nat
BY DEF Latest, Unsent

-----------------------------------------------------------------------------
(* Type correctness. *)
LEMMA ViewTypeInit == ClientViewAssumption /\ ViewInit => ViewTypeOK
<1> SUFFICES ASSUME ClientViewAssumption, ViewInit PROVE ViewTypeOK
  OBVIOUS
<1>1. toClient \in Seq(Packets) /\ toServer \in Seq({"login", "wrong login", "request"})
  BY EmptySeq DEF ViewInit
<1> QED BY <1>1 DEF ViewInit, ViewTypeOK, ClientViewAssumption, NoContacts, AllSent, Idle

(* Each step keeps the types of the state. *)
LEMMA ViewTypeStep ==
  ASSUME ClientViewAssumption, ViewTypeOK, [ViewNext]_viewVars
  PROVE  ViewTypeOK'
<1> DEFINE Requests == {"login", "wrong login", "request"}
<1> USE DEF ViewTypeOK
<1>1. ASSUME NEW s \in Ships \cup {Nothing}, ManConsole(s)
      PROVE  ViewTypeOK'
  <2>1. Append(toClient, Manning(s)) \in Seq(Packets)
    BY PacketsKnown, AppendProperties
  <2>2. told' \in BOOLEAN
    <3> DEFINE times == {"waits", "logs in"}
    <3>1. told' = (worker.at \in times)
      BY <1>1 DEF ManConsole
    <3> HIDE DEF times
    <3> QED BY <3>1, MembershipIsBoolean
  <2> QED BY <1>1, <2>1, <2>2 DEF ManConsole, status
<1>2. CASE DelConsole
  BY <1>2 DEF DelConsole, connection, status
<1>3. CASE UpdateClient
  <2>1. PICK n \in NavStats, p \in Pictures \cup {current}, garbage \in Garbage :
          /\ last' = Latest(n, last)
          /\ current' = [i \in Ids |-> Latest(p[i], current[i])]
          /\ unsentNav' = Unsent(n, last, unsentNav)
          /\ unsent' = [i \in Ids |-> Unsent(p[i], current[i], unsent[i])]
          /\ toClient' = toClient \o NavPackets(n) \o ContactPackets(p, garbage)
    BY <1>3 DEF UpdateClient, Garbage
  <2>2. p \in Scans
    BY DEF ClientViewAssumption, Scans
  <2>3. NavPackets(n) \in Seq(Packets) /\ ContactPackets(p, garbage) \in Seq(Packets)
    BY <2>2, SightsTyped
  <2>4. toClient' \in Seq(Packets)
    BY <2>1, <2>3, ConcatProperties
  <2>5. last' \in NavStats \cup {Nothing} /\ unsentNav' \in Nat
    <3> DEFINE S == NavStats \cup {Nothing}
    <3>1. n \in S /\ last \in S /\ unsentNav \in Nat
      OBVIOUS
    <3> HIDE DEF S
    <3>2. Latest(n, last) \in S /\ Unsent(n, last, unsentNav) \in Nat
      BY <3>1, LatestTyped
    <3> QED BY <2>1, <3>2 DEF S
  <2>6. ASSUME NEW i \in Ids
        PROVE  /\ Latest(p[i], current[i]) \in Sights \cup {Nothing}
               /\ Unsent(p[i], current[i], unsent[i]) \in Nat
    <3> DEFINE S == Sights \cup {Nothing}
    <3>1. p[i] \in S /\ current[i] \in S /\ unsent[i] \in Nat
      BY <2>2 DEF Scans
    <3> HIDE DEF S, ViewTypeOK
    <3>2. Latest(p[i], current[i]) \in S /\ Unsent(p[i], current[i], unsent[i]) \in Nat
      BY <3>1, LatestTyped
    <3> QED BY <3>2 DEF S
  <2>7. current' \in [Ids -> Sights \cup {Nothing}] /\ unsent' \in [Ids -> Nat]
    BY <2>1, <2>6
  <2> QED BY <1>3, <2>4, <2>5, <2>7 DEF UpdateClient, status
<1>4. CASE Login
  <2>1. Append(toClient, Message("accepted")) \in Seq(Packets)
    BY PacketsKnown, AppendProperties
  <2>2. Tail(toServer) \in Seq(Requests)
    BY <1>4, HeadTailProperties DEF Login, Receives
  <2> QED BY <1>4, <2>1, <2>2 DEF Login, Receives, status
<1>5. CASE LoginDenied
  <2>1. Append(toClient, Message("denied")) \in Seq(Packets)
    BY PacketsKnown, AppendProperties
  <2>2. Tail(toServer) \in Seq(Requests)
    BY <1>5, HeadTailProperties DEF LoginDenied, Receives
  <2> QED BY <1>5, <2>1, <2>2 DEF LoginDenied, Receives, status, connection
<1>6. CASE LoginFinds
  BY <1>6 DEF LoginFinds, status, connection
<1>7. CASE LoginEnds
  BY <1>7 DEF LoginEnds, status, Idle
<1>8. CASE Request
  <2>1. Tail(toServer) \in Seq(Requests)
    BY <1>8, HeadTailProperties DEF Request, Receives
  <2> QED BY <1>8, <2>1 DEF Request, Receives, status, connection
<1>9. CASE Answer
  <2>1. Append(toClient, Manning(worker.ship)) \in Seq(Packets)
    BY PacketsKnown, AppendProperties
  <2> QED BY <1>9, <2>1 DEF Answer, status, connection, Idle
<1>10. CASE ReadPacket
  <2> DEFINE p == Head(toClient)
  <2>1. p \in Packets /\ Tail(toClient) \in Seq(Packets)
    BY <1>10, HeadTailProperties DEF ReadPacket
  <2>2. CASE p.type = "denied"
    <3>1. <<>> \in Seq(Packets) /\ <<>> \in Seq(Requests)
      BY EmptySeq
    <3>2. Lose /\ ghosts' = {i \in Ids : contacts[i] # Nothing} /\ UNCHANGED contacts
      BY <1>10, <2>2 DEF ReadPacket
    <3> QED BY <3>1, <3>2 DEF Lose, Idle, NoContacts, AllSent
  <2>3. CASE p.type # "denied"
    <3>1. PICK r \in Replies(p.type) : toServer' = toServer \o r
      BY <1>10, <2>3 DEF ReadPacket
    <3>2. r \in Seq(Requests)
      <4>1. r \in {<<"login">>, <<"wrong login">>, <<"request">>, <<>>}
        BY <3>1, RepliesKnown
      <4>2. \A m \in Requests : <<m>> \in Seq(Requests)
        BY SingletonSeq
      <4>3. <<>> \in Seq(Requests)
        BY EmptySeq
      <4> QED BY <4>1, <4>2, <4>3
    <3>3. toServer' \in Seq(Requests)
      BY <3>1, <3>2, ConcatProperties
    <3>4. named' \in Ships \cup {Nothing}
      <4>1. p.type = "shipinfo" => p.name \in Ships
        BY <2>1, PacketTypes
      <4>2. named' = CASE p.type = "shipinfo" -> p.name
                       [] p.type = "noconsole" -> Nothing
                       [] OTHER -> named
        BY <1>10, <2>3 DEF ReadPacket
      <4>3. CASE p.type = "shipinfo"
        BY <4>1, <4>2, <4>3
      <4>4. CASE p.type = "noconsole"
        BY <4>2, <4>4
      <4>5. CASE p.type \notin {"shipinfo", "noconsole"}
        BY <4>2, <4>5
      <4> QED BY <4>3, <4>4, <4>5
    <3>5. view \in Views
      BY DEF view, Views
    <3>6. contacts' = Noted(p, view).contacts /\ nav' = Noted(p, view).nav
      BY <1>10, <2>3 DEF ReadPacket
    <3>7. Noted(p, view) \in Views
      BY <2>1, <3>5, NotedTyped
    <3>8. /\ nav' \in [NavFields -> Values]
          /\ contacts' \in [Ids -> [ContactFields -> Values \cup {Nothing}] \cup {Nothing}]
      BY <3>6, <3>7 DEF Views
    <3>9. toClient' \in Seq(Packets)
      BY <1>10, <2>1, <2>3 DEF ReadPacket
    <3> QED BY <1>10, <2>3, <3>3, <3>4, <3>9, <3>8 DEF ReadPacket, connection
  <2> QED BY <2>2, <2>3
<1>11. CASE Disconnect
  <2>1. <<>> \in Seq(Packets) /\ <<>> \in Seq(Requests)
    BY EmptySeq
  <2> QED BY <1>11, <2>1 DEF Disconnect, Lose, Idle, NoContacts, AllSent
<1>12. CASE Connect
  <2>1. <<Message("welcome")>> \in Seq(Packets)
    BY PacketsKnown, SingletonSeq
  <2> QED BY <1>12, <2>1 DEF Connect, connection
<1>13. CASE UNCHANGED viewVars
  BY <1>13 DEF viewVars, connection, status
<1> HIDE DEF ViewTypeOK
<1> QED BY <1>1, <1>2, <1>3, <1>4, <1>5, <1>6, <1>7, <1>8, <1>9, <1>10, <1>11, <1>12, <1>13
    DEF ViewNext, Serve

-----------------------------------------------------------------------------
(* Which ship the client shows.                                            *)

(* What tells which ship is manned, what does not, and either. *)
CrewTypes == {"shipinfo", "noconsole"}
SightTypes == {"navstat", "contact"}
LaterTypes == CrewTypes \cup SightTypes

(* After the first k of the packets come only such of these types.         *)
OnlyAfter(packets, k, types) == \A j \in (k + 1)..Len(packets) : packets[j].type \in types

(* What a client that shows ship n makes of the packets is ship m.         *)
TellsLast(packets, n, m) ==
  \/ n = m /\ OnlyAfter(packets, 0, SightTypes)
  \/ \E k \in 1..Len(packets) : packets[k] = Manning(m) /\ OnlyAfter(packets, k, SightTypes)

(* The client is not logged in: nothing is known of it, and it is greeted, *)
(* asks to be let in, or is turned away.                                   *)
LettingIn ==
  ~loggedIn =>
    /\ ship = Nothing /\ told /\ worker = Idle
    /\ ~connected => toClient = <<>> /\ toServer = <<>>
    /\ connected =>
         \/ toClient = <<Message("welcome")>> /\ toServer = <<>>
         \/ toClient = <<>> /\ toServer \in {<<"login">>, <<"wrong login">>}
         \/ toClient = <<Message("denied")>> /\ toServer = <<>>

(* It is, and has not yet read so.                                         *)
Accepting ==
  /\ toClient # <<>> /\ toClient[1].type = "accepted" /\ OnlyAfter(toClient, 1, LaterTypes)
  /\ toServer = <<>> /\ worker.at # "answers"

(* It asks which ship is manned.                                           *)
Requesting ==
  /\ OnlyAfter(toClient, 0, LaterTypes)
  /\ toServer = <<"request">> /\ worker.at # "answers"

Answering ==
  /\ OnlyAfter(toClient, 0, LaterTypes)
  /\ toServer = <<>> /\ worker.at = "answers"

(* It has got the answer, or will.                                         *)
Following ==
  /\ OnlyAfter(toClient, 0, LaterTypes)
  /\ toServer = <<>> /\ worker = Idle
  /\ told => TellsLast(toClient, named, manned)

LetIn == loggedIn => connected /\ (Accepting \/ Requesting \/ Answering \/ Following)

(* What the connection knows of the console, and the worker is about to    *)
(* say of it.                                                              *)
Knows ==
  loggedIn /\ told =>
    /\ worker.at = "waits" => ship = manned
    /\ worker.at = "logs in" => manned # Nothing \/ ship = Nothing
    /\ worker.at = "found" => worker.ship = manned /\ (manned = Nothing => ship = Nothing)
    /\ worker.at = "answers" => ship = manned /\ worker.ship = manned

CrewInv ==
  /\ worker.at = "waits" => worker = Idle
  /\ LettingIn
  /\ LetIn
  /\ Knows

(* The packet that tells which ship is manned, read back. *)
LEMMA ManningTypes ==
  ASSUME NEW s
  PROVE  /\ Manning(s).type \in CrewTypes
         /\ Manning(s).type = "shipinfo" => s # Nothing /\ Manning(s).name = s
         /\ Manning(s).type # "shipinfo" => s = Nothing /\ Manning(s).type = "noconsole"
BY DEF Manning, Message, ShipInfo, CrewTypes

(* What packets that are sent, and the reading of one, do to those under   *)
(* way.                                                                    *)
LEMMA AppendedAfter ==
  ASSUME NEW s \in Seq(Packets), NEW p \in Packets, NEW k \in Nat, NEW types,
         OnlyAfter(s, k, types), p.type \in types
  PROVE  OnlyAfter(Append(s, p), k, types)
<1> DEFINE t == Append(s, p)
<1>1. /\ Len(s) \in Nat /\ Len(t) = Len(s) + 1 /\ t[Len(s) + 1] = p
      /\ \A j \in 1..Len(s) : t[j] = s[j]
  BY AppendProperties, LenProperties
<1> HIDE DEF t
<1> SUFFICES ASSUME NEW j \in (k + 1)..Len(t) PROVE t[j].type \in types
  BY DEF OnlyAfter, t
<1>2. CASE j = Len(s) + 1
  BY <1>1, <1>2
<1>3. CASE j # Len(s) + 1
  <2>1. j \in (k + 1)..Len(s) /\ j \in 1..Len(s)
    BY <1>1, <1>3
  <2> QED BY <1>1, <2>1 DEF OnlyAfter
<1> QED BY <1>2, <1>3

(* One sequence after the other: if only packets of these types come after *)
(* the first k, and in all of the second, then in the two.                 *)
LEMMA ConcatenatedAfter ==
  ASSUME NEW s \in Seq(Packets), NEW t \in Seq(Packets), NEW k \in Nat, NEW types,
         OnlyAfter(s, k, types), OnlyAfter(t, 0, types)
  PROVE  OnlyAfter(s \o t, k, types)
<1> DEFINE u == s \o t
<1>1. Len(s) \in Nat /\ Len(t) \in Nat /\ Len(u) = Len(s) + Len(t)
  BY ConcatProperties, LenProperties
<1>2. \A j \in 1..Len(u) : u[j] = IF j <= Len(s) THEN s[j] ELSE t[j - Len(s)]
  BY <1>1, ConcatProperties
<1> HIDE DEF u
<1> SUFFICES ASSUME NEW j \in (k + 1)..Len(u) PROVE u[j].type \in types
  BY DEF OnlyAfter, u
<1>3. j \in 1..Len(u)
  BY <1>1
<1>4. CASE j <= Len(s)
  <2>1. j \in (k + 1)..Len(s)
    BY <1>1, <1>4
  <2> QED BY <1>2, <1>3, <1>4, <2>1 DEF OnlyAfter
<1>5. CASE ~(j <= Len(s))
  <2>1. j - Len(s) \in 1..Len(t)
    BY <1>1, <1>3, <1>5
  <2> QED BY <1>2, <1>3, <1>5, <2>1 DEF OnlyAfter
<1> QED BY <1>4, <1>5

(* The first packet is read: one packet less stands before the rest. *)
LEMMA TailAfter ==
  ASSUME NEW s \in Seq(Packets), s # <<>>, NEW k \in Nat, NEW l \in Nat, k <= l + 1, NEW types,
         OnlyAfter(s, k, types)
  PROVE  OnlyAfter(Tail(s), l, types)
<1>1. /\ Len(s) \in Nat /\ Len(Tail(s)) = Len(s) - 1
      /\ \A j \in 1..Len(Tail(s)) : Tail(s)[j] = s[j + 1]
  BY HeadTailProperties, LenProperties
<1> SUFFICES ASSUME NEW j \in (l + 1)..Len(Tail(s)) PROVE Tail(s)[j].type \in types
  BY DEF OnlyAfter
<1>2. j \in 1..Len(Tail(s)) /\ j + 1 \in (k + 1)..Len(s)
  BY <1>1
<1> QED BY <1>1, <1>2 DEF OnlyAfter

(* The packet sent last tells of the crew what it says. *)
LEMMA TellsAppended ==
  ASSUME NEW s \in Seq(Packets), NEW n, NEW m \in Ships \cup {Nothing}
  PROVE  TellsLast(Append(s, Manning(m)), n, m)
<1> DEFINE t == Append(s, Manning(m))
<1>1. Len(s) \in Nat /\ Len(t) = Len(s) + 1 /\ t[Len(s) + 1] = Manning(m)
  BY PacketsKnown, AppendProperties, LenProperties
<1> HIDE DEF t
<1>2. OnlyAfter(t, Len(s) + 1, SightTypes)
  BY <1>1 DEF OnlyAfter
<1>3. Len(s) + 1 \in 1..Len(t)
  BY <1>1
<1>4. TellsLast(t, n, m)
  BY <1>1, <1>2, <1>3 DEF TellsLast
<1> QED BY <1>4 DEF t

(* Packets of what the sensors see do not tell anything of the crew. *)
LEMMA TellsConcatenated ==
  ASSUME NEW s \in Seq(Packets), NEW t \in Seq(Packets), NEW n, NEW m,
         TellsLast(s, n, m), OnlyAfter(t, 0, SightTypes)
  PROVE  TellsLast(s \o t, n, m)
<1>1. CASE n = m /\ OnlyAfter(s, 0, SightTypes)
  BY <1>1, ConcatenatedAfter DEF TellsLast
<1>2. CASE \E k \in 1..Len(s) : s[k] = Manning(m) /\ OnlyAfter(s, k, SightTypes)
  <2>1. PICK k \in 1..Len(s) : s[k] = Manning(m) /\ OnlyAfter(s, k, SightTypes)
    BY <1>2
  <2>2. k \in Nat
    BY LenProperties
  <2>3. OnlyAfter(s \o t, k, SightTypes)
    BY <2>1, <2>2, ConcatenatedAfter
  <2>4. k \in 1..Len(s \o t) /\ (s \o t)[k] = s[k]
    BY ConcatProperties, LenProperties
  <2> QED BY <2>1, <2>3, <2>4 DEF TellsLast
<1> QED BY <1>1, <1>2 DEF TellsLast

(* The client makes n of the first packet.                                 *)
ReadAs(p, old) == CASE p.type = "shipinfo" -> p.name
                    [] p.type = "noconsole" -> Nothing
                    [] OTHER -> old

(* Reading the first packet, the client comes to the same end. *)
LEMMA TellsTail ==
  ASSUME NEW s \in Seq(Packets), s # <<>>, NEW n, NEW m, TellsLast(s, n, m)
  PROVE  TellsLast(Tail(s), ReadAs(Head(s), n), m)
<1>1. /\ Len(s) \in Nat /\ Len(s) # 0 /\ Len(Tail(s)) = Len(s) - 1
      /\ \A j \in 1..Len(Tail(s)) : Tail(s)[j] = s[j + 1]
      /\ Head(s) = s[1]
  BY HeadTailProperties, LenProperties, EmptySeq
<1>2. CASE n = m /\ OnlyAfter(s, 0, SightTypes)
  <2>1. s[1].type \in SightTypes
    BY <1>1, <1>2 DEF OnlyAfter
  <2>2. ReadAs(Head(s), n) = n
    BY <1>1, <2>1 DEF ReadAs, SightTypes
  <2>3. OnlyAfter(Tail(s), 0, SightTypes)
    BY <1>2, TailAfter
  <2> QED BY <1>2, <2>2, <2>3 DEF TellsLast
<1>3. CASE s[1] = Manning(m) /\ OnlyAfter(s, 1, SightTypes)
  <2>1. ReadAs(Head(s), n) = m
    BY <1>1, <1>3, ManningTypes DEF ReadAs
  <2>2. OnlyAfter(Tail(s), 0, SightTypes)
    BY <1>3, TailAfter
  <2> QED BY <2>1, <2>2 DEF TellsLast
<1>4. ASSUME NEW k \in 1..Len(s), k # 1, s[k] = Manning(m), OnlyAfter(s, k, SightTypes)
      PROVE  TellsLast(Tail(s), ReadAs(Head(s), n), m)
  <2>1. k - 1 \in 1..Len(Tail(s)) /\ Tail(s)[k - 1] = s[k]
    BY <1>1, <1>4
  <2>2. OnlyAfter(Tail(s), k - 1, SightTypes)
    <3>1. k \in Nat /\ k - 1 \in Nat /\ k <= k - 1 + 1
      BY <1>1
    <3> QED BY <1>4, <3>1, TailAfter
  <2> QED BY <1>4, <2>1, <2>2 DEF TellsLast
<1> QED BY <1>2, <1>3, <1>4 DEF TellsLast

(* Sequences of one member, by their members. *)
LEMMA Singles ==
  \A a : /\ <<a>> # <<>> /\ Head(<<a>>) = a /\ Tail(<<a>>) = <<>>
         /\ Len(<<a>>) = 1 /\ <<a>>[1] = a /\ Append(<<>>, a) = <<a>>
OBVIOUS

(* The worker without a task holds no ship. *)
LEMMA IdleWaits == Idle.at = "waits" /\ Idle.ship = Nothing
BY DEF Idle

(* What UpdateClient sends says nothing of the crew.                       *)
LEMMA OnlySights ==
  ASSUME ClientViewAssumption, NEW n \in NavStats, NEW p \in Scans,
         NEW garbage \in Garbage
  PROVE  OnlyAfter(NavPackets(n), 0, SightTypes) /\ OnlyAfter(ContactPackets(p, garbage), 0, SightTypes)
<1>1. OnlyAfter(NavPackets(n), 0, SightTypes)
  BY DEF NavPackets, OnlyAfter, SightTypes
<1>2. ContactPackets(p, garbage) \in Seq(ContactSights)
  BY ContactPacketsTyped
<1>3. \A k \in 1..Len(ContactPackets(p, garbage)) : ContactPackets(p, garbage)[k] \in ContactSights
  BY <1>2, ElementOfSeq
<1>4. \A q \in ContactSights : q.type \in SightTypes
  BY DEF ContactSights, SightTypes
<1> QED BY <1>1, <1>3, <1>4 DEF OnlyAfter

(* Both kinds of packets are among those that may follow the login. *)
LEMMA LaterIncludes ==
  ASSUME NEW s, NEW k
  PROVE  /\ OnlyAfter(s, k, SightTypes) => OnlyAfter(s, k, LaterTypes)
         /\ \A m : Manning(m).type \in LaterTypes
BY ManningTypes DEF OnlyAfter, LaterTypes

(* A packet about the crew, or several about what is seen, are sent while  *)
(* the client is logged in, and nothing else happens to the channels.      *)
LEMMA StageKeptByAppend ==
  ASSUME ClientViewAssumption, ViewTypeOK, NEW m \in Ships \cup {Nothing},
         toClient' = Append(toClient, Manning(m)), UNCHANGED <<toServer, worker>>
  PROVE  /\ Accepting => Accepting'
         /\ Requesting => Requesting'
         /\ Answering => Answering'
<1>1. Manning(m) \in Packets /\ toClient \in Seq(Packets) /\ Manning(m).type \in LaterTypes
  BY PacketsKnown, LaterIncludes DEF ViewTypeOK
<1>2. ASSUME NEW k \in Nat, OnlyAfter(toClient, k, LaterTypes)
      PROVE  OnlyAfter(toClient', k, LaterTypes)
  BY <1>1, <1>2, AppendedAfter
<1>3. ASSUME toClient # <<>>, toClient[1].type = "accepted"
      PROVE  toClient' # <<>> /\ toClient'[1].type = "accepted"
  <2>1. 1 \in 1..Len(toClient)
    BY <1>1, <1>3, EmptySeq
  <2> QED BY <1>1, <1>3, <2>1, AppendProperties
<1>4. 0 \in Nat /\ 1 \in Nat
  OBVIOUS
<1>5. Accepting => Accepting'
  BY <1>2, <1>3, <1>4 DEF Accepting
<1>6. Requesting => Requesting'
  BY <1>2, <1>4 DEF Requesting
<1>7. Answering => Answering'
  BY <1>2, <1>4 DEF Answering
<1> QED BY <1>5, <1>6, <1>7

(* Packets of what the sensors see leave each stage of the login as it is. *)
LEMMA StageKeptByConcat ==
  ASSUME ClientViewAssumption, ViewTypeOK, NEW t \in Seq(Packets), OnlyAfter(t, 0, SightTypes),
         toClient' = toClient \o t, UNCHANGED <<toServer, worker, named, manned, told>>
  PROVE  /\ Accepting => Accepting'
         /\ Requesting => Requesting'
         /\ Answering => Answering'
         /\ Following => Following'
<1>1. toClient \in Seq(Packets) /\ OnlyAfter(t, 0, LaterTypes)
  BY LaterIncludes DEF ViewTypeOK
<1>2. ASSUME NEW k \in Nat, OnlyAfter(toClient, k, LaterTypes)
      PROVE  OnlyAfter(toClient', k, LaterTypes)
  BY <1>1, <1>2, ConcatenatedAfter
<1>3. ASSUME toClient # <<>>, toClient[1].type = "accepted"
      PROVE  toClient' # <<>> /\ toClient'[1].type = "accepted"
  <2>1. 1 \in 1..Len(toClient) /\ Len(toClient) \in Nat /\ Len(t) \in Nat
    BY <1>1, <1>3, EmptySeq, LenProperties
  <2>2. toClient'[1] = toClient[1] /\ Len(toClient') # 0
    BY <1>1, <2>1, ConcatProperties
  <2>3. Len(<<>>) = 0
    BY EmptySeq
  <2> QED BY <1>3, <2>2, <2>3
<1>4. 0 \in Nat /\ 1 \in Nat
  OBVIOUS
<1>5. Accepting => Accepting'
  BY <1>2, <1>3, <1>4 DEF Accepting
<1>6. Requesting => Requesting'
  BY <1>2, <1>4 DEF Requesting
<1>7. Answering => Answering'
  BY <1>2, <1>4 DEF Answering
<1>8. TellsLast(toClient, named, manned) => TellsLast(toClient', named', manned')
  BY <1>1, TellsConcatenated
<1>9. Following => Following'
  BY <1>2, <1>4, <1>8 DEF Following
<1> QED BY <1>5, <1>6, <1>7, <1>9

(* A player mans a console or leaves one, and the client that is logged in *)
(* is told so (HSClientConnection::ConsoleUpdate).                         *)
LEMMA ManConsoleKeepsCrew ==
  ASSUME ClientViewAssumption, ViewTypeOK, CrewInv, NEW s \in Ships \cup {Nothing}, ManConsole(s)
  PROVE  CrewInv'
<1>1. /\ manned' = s /\ (told' <=> worker.at \in {"waits", "logs in"})
      /\ UNCHANGED <<loggedIn, worker, toServer, connected, named>>
  BY DEF ManConsole, status
<1>2. CASE ~loggedIn
  <2>1. UNCHANGED <<ship, toClient>>
    BY <1>2 DEF ManConsole
  <2>2. LettingIn'
    <3>1. LettingIn /\ worker = Idle
      BY <1>2 DEF CrewInv, LettingIn
    <3>2. Idle.at \in {"waits", "logs in"}
      BY DEF Idle
    <3>3. told'
      BY <1>1, <3>1, <3>2
    <3> QED BY <1>1, <1>2, <2>1, <3>1, <3>3 DEF LettingIn, Idle
  <2>3. LetIn' /\ Knows'
    BY <1>1, <1>2 DEF LetIn, Knows
  <2> QED BY <1>1, <2>2, <2>3 DEF CrewInv, Idle
<1>3. CASE loggedIn
  <2>1. ship' = s /\ toClient' = Append(toClient, Manning(s))
    BY <1>3 DEF ManConsole
  <2>2. LettingIn'
    BY <1>1, <1>3 DEF LettingIn
  <2>3. Following => Following'
    <3>1. toClient \in Seq(Packets) /\ Manning(s) \in Packets /\ Manning(s).type \in LaterTypes
      BY PacketsKnown, LaterIncludes DEF ViewTypeOK
    <3>2. OnlyAfter(toClient, 0, LaterTypes) => OnlyAfter(toClient', 0, LaterTypes)
      BY <2>1, <3>1, AppendedAfter
    <3>3. TellsLast(toClient', named', manned')
      BY <1>1, <2>1, <3>1, TellsAppended
    <3> QED BY <1>1, <3>2, <3>3 DEF Following, Idle
  <2>4. LetIn'
    <3>1. connected /\ (Accepting \/ Requesting \/ Answering \/ Following)
      BY <1>3 DEF CrewInv, LetIn
    <3>2. UNCHANGED <<toServer, worker>>
      BY <1>1
    <3> QED BY <1>1, <2>1, <2>3, <3>1, <3>2, StageKeptByAppend DEF LetIn
  <2>5. Knows'
    BY <1>1, <2>1 DEF Knows
  <2> QED BY <1>1, <2>2, <2>4, <2>5 DEF CrewInv, Idle
<1> QED BY <1>2, <1>3

(* A console is gone, and the client that is logged in does not count as   *)
(* told of it any more.                                                    *)
LEMMA DelConsoleKeepsCrew ==
  ASSUME CrewInv, DelConsole
  PROVE  CrewInv'
<1>1. /\ UNCHANGED <<loggedIn, ship, worker, toClient, toServer, connected>>
      /\ told' <=> ~loggedIn
  BY DEF DelConsole, connection, status
<1>2. LettingIn'
  BY <1>1 DEF CrewInv, LettingIn, Idle
<1>3. LetIn'
  BY <1>1 DEF CrewInv, LetIn, Accepting, Requesting, Answering, Following, OnlyAfter, Idle
<1>4. Knows'
  BY <1>1 DEF Knows
<1> QED BY <1>1, <1>2, <1>3, <1>4 DEF CrewInv, Idle

(* HSClientConnection::UpdateClient sends what the sensors see. *)
LEMMA UpdateKeepsCrew ==
  ASSUME ClientViewAssumption, ViewTypeOK, CrewInv, UpdateClient
  PROVE  CrewInv'
<1>1. PICK n \in NavStats, p \in Pictures \cup {current}, garbage \in Garbage :
        toClient' = toClient \o NavPackets(n) \o ContactPackets(p, garbage)
  BY DEF UpdateClient, Garbage
<1>2. p \in Scans
  BY DEF ViewTypeOK, ClientViewAssumption, Scans
<1> DEFINE t == NavPackets(n) \o ContactPackets(p, garbage)
<1>3. /\ NavPackets(n) \in Seq(Packets) /\ ContactPackets(p, garbage) \in Seq(Packets)
      /\ OnlyAfter(NavPackets(n), 0, SightTypes)
      /\ OnlyAfter(ContactPackets(p, garbage), 0, SightTypes)
  BY <1>2, SightsTyped, OnlySights
<1>4. t \in Seq(Packets) /\ OnlyAfter(t, 0, SightTypes)
  BY <1>3, ConcatenatedAfter, ConcatProperties
<1>5. toClient' = toClient \o t
  <2>1. toClient \in Seq(Packets)
    BY DEF ViewTypeOK
  <2> QED BY <1>1, <1>3, <2>1, ConcatAssociative
<1> HIDE DEF t
<1>6. /\ UNCHANGED <<manned, loggedIn, ship, worker, toServer, connected, named, told>>
      /\ ship # Nothing
  BY DEF UpdateClient, status
<1>7. loggedIn
  BY <1>6 DEF CrewInv, LettingIn
<1>8. LettingIn'
  BY <1>6, <1>7 DEF LettingIn
<1>9. LetIn'
  <2>1. connected /\ (Accepting \/ Requesting \/ Answering \/ Following)
    BY <1>7 DEF CrewInv, LetIn
  <2> QED BY <1>4, <1>5, <1>6, <2>1, StageKeptByConcat DEF LetIn
<1>10. Knows'
  BY <1>6 DEF CrewInv, Knows
<1> QED BY <1>6, <1>8, <1>9, <1>10 DEF CrewInv, Idle

(* The worker lets the client in, and tells it so. *)
LEMMA LoginKeepsCrew ==
  ASSUME ClientViewAssumption, ViewTypeOK, CrewInv, Login
  PROVE  CrewInv'
<1>1. /\ toServer # <<>> /\ Head(toServer) = "login" /\ toServer' = Tail(toServer)
      /\ loggedIn' = TRUE /\ toClient' = Append(toClient, Message("accepted"))
      /\ worker' = [at |-> "logs in", ship |-> Nothing] /\ worker.at = "waits"
      /\ UNCHANGED <<manned, ship, connected, named, told>>
  BY DEF Login, Receives, status
<1>2. ~loggedIn
  <2>1. SUFFICES ASSUME loggedIn PROVE FALSE
    OBVIOUS
  <2>2. toServer = <<"request">>
    BY <1>1, <2>1 DEF CrewInv, LetIn, Accepting, Requesting, Answering, Following
  <2> QED BY <1>1, <2>2, Singles
<1>3. toClient = <<>> /\ toServer = <<"login">> /\ connected /\ ship = Nothing
  BY <1>1, <1>2, Singles DEF CrewInv, LettingIn
<1>4. toClient' = <<Message("accepted")>> /\ toServer' = <<>>
  BY <1>1, <1>3, Singles
<1>5. Accepting'
  <2>1. Message("accepted").type = "accepted"
    BY DEF Message
  <2>2. OnlyAfter(toClient', 1, LaterTypes)
    BY <1>4, Singles DEF OnlyAfter
  <2> QED BY <1>1, <1>4, <2>1, <2>2, Singles DEF Accepting
<1>6. LettingIn' /\ LetIn' /\ Knows'
  BY <1>1, <1>3, <1>5 DEF LettingIn, LetIn, Knows
<1> QED BY <1>1, <1>6 DEF CrewInv

(* The worker denies the login, and the client is not let in. *)
LEMMA DeniedKeepsCrew ==
  ASSUME ClientViewAssumption, ViewTypeOK, CrewInv, LoginDenied
  PROVE  CrewInv'
<1>1. /\ toServer # <<>> /\ Head(toServer) = "wrong login" /\ toServer' = Tail(toServer)
      /\ toClient' = Append(toClient, Message("denied"))
      /\ UNCHANGED <<manned, ship, loggedIn, connected, worker, told>>
  BY DEF LoginDenied, Receives, status, connection
<1>2. ~loggedIn
  <2>1. SUFFICES ASSUME loggedIn PROVE FALSE
    OBVIOUS
  <2>2. toServer = <<"request">>
    BY <1>1, <2>1 DEF CrewInv, LetIn, Accepting, Requesting, Answering, Following
  <2> QED BY <1>1, <2>2, Singles
<1>3. toClient = <<>> /\ toServer = <<"wrong login">> /\ connected
  BY <1>1, <1>2, Singles DEF CrewInv, LettingIn
<1>4. toClient' = <<Message("denied")>> /\ toServer' = <<>>
  BY <1>1, <1>3, Singles
<1>5. LettingIn'
  BY <1>1, <1>2, <1>3, <1>4 DEF CrewInv, LettingIn, Idle
<1>6. LetIn' /\ Knows'
  BY <1>1, <1>2 DEF LetIn, Knows
<1> QED BY <1>1, <1>5, <1>6 DEF CrewInv, Idle

(* A step of the worker that sends nothing. *)
LEMMA StageKeptByWorker ==
  ASSUME UNCHANGED <<toClient, toServer>>, worker.at # "answers", worker'.at # "answers"
  PROVE  (Accepting => Accepting') /\ (Requesting => Requesting')
BY DEF Accepting, Requesting, OnlyAfter

(* The worker looks for the console that the player mans                   *)
(* (HSDB::FindConsoleMannedBy).                                            *)
LEMMA FindsKeepsCrew ==
  ASSUME CrewInv, LoginFinds
  PROVE  CrewInv'
<1>1. /\ worker.at = "logs in" /\ worker' = [at |-> "found", ship |-> manned]
      /\ told' <=> told \/ manned # Nothing
      /\ UNCHANGED <<manned, ship, loggedIn, connected, toClient, toServer>>
  BY DEF LoginFinds, status, connection
<1>2. loggedIn
  BY <1>1, IdleWaits DEF CrewInv, LettingIn
<1>3. LettingIn'
  BY <1>1, <1>2 DEF LettingIn
<1>4. LetIn'
  <2>1. connected /\ (Accepting \/ Requesting)
    BY <1>1, <1>2, IdleWaits DEF CrewInv, LetIn, Answering, Following
  <2> QED BY <1>1, <2>1, StageKeptByWorker DEF LetIn
<1>5. Knows'
  BY <1>1, <1>2 DEF CrewInv, Knows
<1> QED BY <1>1, <1>3, <1>4, <1>5 DEF CrewInv

(* The worker ends the login with the ship of the console, if it has found *)
(* one.                                                                    *)
LEMMA EndsKeepsCrew ==
  ASSUME CrewInv, LoginEnds
  PROVE  CrewInv'
<1>1. /\ worker.at = "found" /\ worker' = Idle
      /\ ship' = IF worker.ship # Nothing THEN worker.ship ELSE ship
      /\ UNCHANGED <<manned, loggedIn, connected, toClient, toServer, told>>
  BY DEF LoginEnds, status
<1>2. loggedIn
  BY <1>1, IdleWaits DEF CrewInv, LettingIn
<1>3. LettingIn'
  BY <1>1, <1>2 DEF LettingIn
<1>4. LetIn'
  <2>1. connected /\ (Accepting \/ Requesting)
    BY <1>1, <1>2, IdleWaits DEF CrewInv, LetIn, Answering, Following
  <2>2. worker'.at # "answers"
    BY <1>1 DEF Idle
  <2> QED BY <1>1, <2>1, <2>2, StageKeptByWorker DEF LetIn
<1>5. Knows'
  BY <1>1, <1>2 DEF CrewInv, Knows, Idle
<1> QED BY <1>1, <1>3, <1>4, <1>5 DEF CrewInv

(* The worker looks at the ship that the connection has; a change before   *)
(* it answers makes the client count as untold.                            *)
LEMMA RequestKeepsCrew ==
  ASSUME CrewInv, Request
  PROVE  CrewInv'
<1>1. /\ worker.at = "waits" /\ toServer # <<>> /\ Head(toServer) = "request"
      /\ toServer' = Tail(toServer) /\ worker' = [at |-> "answers", ship |-> ship]
      /\ UNCHANGED <<manned, ship, loggedIn, connected, toClient, told>>
  BY DEF Request, Receives, status, connection
<1>2. loggedIn
  <2>1. SUFFICES ASSUME ~loggedIn PROVE FALSE
    OBVIOUS
  <2>2. toServer = <<"login">> \/ toServer = <<"wrong login">>
    BY <1>1, <2>1 DEF CrewInv, LettingIn
  <2> QED BY <1>1, <2>2, Singles
<1>3. connected /\ OnlyAfter(toClient, 0, LaterTypes) /\ toServer = <<"request">>
  BY <1>1, <1>2 DEF CrewInv, LetIn, Accepting, Requesting, Answering, Following
<1>4. Answering'
  BY <1>1, <1>3 DEF Answering, OnlyAfter
<1>5. LettingIn' /\ LetIn'
  BY <1>1, <1>2, <1>3, <1>4 DEF LettingIn, LetIn
<1>6. Knows'
  BY <1>1, <1>2 DEF CrewInv, Knows
<1> QED BY <1>1, <1>5, <1>6 DEF CrewInv

(* The worker answers: told, what it has looked up is still so. *)
LEMMA AnswerKeepsCrew ==
  ASSUME ClientViewAssumption, ViewTypeOK, CrewInv, Answer
  PROVE  CrewInv'
<1> DEFINE m == worker.ship
<1>1. /\ worker.at = "answers" /\ toClient' = Append(toClient, Manning(m)) /\ worker' = Idle
      /\ UNCHANGED <<manned, ship, loggedIn, connected, toServer, named, told>>
  BY DEF Answer, status, connection
<1>2. m \in Ships \cup {Nothing} /\ toClient \in Seq(Packets)
  BY DEF ViewTypeOK
<1> HIDE DEF m
<1>3. loggedIn
  BY <1>1, IdleWaits DEF CrewInv, LettingIn
<1>4. connected /\ OnlyAfter(toClient, 0, LaterTypes) /\ toServer = <<>>
  BY <1>1, <1>3 DEF CrewInv, LetIn, Accepting, Requesting, Answering, Following, Idle
<1>5. told => ship = manned /\ m = manned
  BY <1>1, <1>3 DEF CrewInv, Knows, m
<1>6. Following'
  <2>1. Manning(m) \in Packets /\ Manning(m).type \in LaterTypes
    BY <1>2, PacketsKnown, LaterIncludes
  <2>2. OnlyAfter(toClient', 0, LaterTypes)
    BY <1>1, <1>2, <1>4, <2>1, AppendedAfter
  <2>3. TellsLast(toClient', named, m)
    BY <1>1, <1>2, TellsAppended
  <2>4. told' => TellsLast(toClient', named', manned')
    BY <1>1, <1>5, <2>3
  <2> QED BY <1>1, <1>4, <2>2, <2>4 DEF Following, Idle
<1>7. LettingIn' /\ LetIn'
  BY <1>1, <1>3, <1>4, <1>6 DEF LettingIn, LetIn
<1>8. Knows'
  BY <1>1, <1>5 DEF Knows, Idle
<1> QED BY <1>1, <1>7, <1>8 DEF CrewInv

(* Sequences put after an empty one, and before it. *)
LEMMA EmptyFirst ==
  /\ \A a : <<>> \o <<a>> = <<a>> /\ <<a>> \o <<>> = <<a>>
  /\ <<>> \o <<>> = <<>>
<1>1. ASSUME NEW a PROVE <<>> \o <<a>> = <<a>> /\ <<a>> \o <<>> = <<a>>
  <2>1. <<a>> \in Seq({a})
    OBVIOUS
  <2> QED BY <2>1, ConcatEmptySeq
<1>2. <<>> \in Seq({})
  BY EmptySeq
<1> QED BY <1>1, <1>2, ConcatEmptySeq

(* Once the first packet is read, none but the expected are left. *)
LEMMA HeadRead ==
  ASSUME NEW s \in Seq(Packets), s # <<>>, NEW types
  PROVE  OnlyAfter(s, 0, types) \/ OnlyAfter(s, 1, types) => OnlyAfter(Tail(s), 0, types)
BY TailAfter

(* Losing the connection, from whichever side.                             *)
LEMMA LoseKeepsCrew ==
  ASSUME Lose
  PROVE  CrewInv'
BY IdleWaits DEF Lose, CrewInv, LettingIn, LetIn, Knows

(* The client connects, with nothing on the way yet. *)
LEMMA ConnectKeepsCrew ==
  ASSUME CrewInv, Connect
  PROVE  CrewInv'
<1>1. /\ ~connected /\ connected' = TRUE /\ toClient' = <<Message("welcome")>>
      /\ UNCHANGED <<manned, ship, loggedIn, worker, toServer, told>>
  BY DEF Connect, connection
<1>2. ~loggedIn
  BY <1>1 DEF CrewInv, LetIn
<1>3. LettingIn'
  BY <1>1, <1>2 DEF CrewInv, LettingIn, Idle
<1>4. LetIn' /\ Knows'
  BY <1>1, <1>2 DEF LetIn, Knows
<1> QED BY <1>1, <1>3, <1>4 DEF CrewInv, Idle

(* The client reads its first packet and answers, which takes the login to *)
(* its next stage.                                                         *)
LEMMA ReadKeepsCrew ==
  ASSUME ClientViewAssumption, ViewTypeOK, CrewInv, ReadPacket
  PROVE  CrewInv'
<1> DEFINE p == Head(toClient)
<1>1. toClient # <<>> /\ toClient \in Seq(Packets)
  BY DEF ReadPacket, ViewTypeOK
<1>2. CASE p.type = "denied"
  <2>1. Lose
    BY <1>2 DEF ReadPacket
  <2> QED BY <2>1, LoseKeepsCrew
<1>3. CASE p.type # "denied"
  <2>1. /\ toClient' = Tail(toClient)
        /\ \E r \in Replies(p.type) : toServer' = toServer \o r
        /\ named' = CASE p.type = "shipinfo" -> p.name
                      [] p.type = "noconsole" -> Nothing
                      [] OTHER -> named
        /\ UNCHANGED <<manned, ship, loggedIn, connected, worker, told>>
    BY <1>3 DEF ReadPacket, connection
  <2>2. named' = ReadAs(p, named)
    BY <2>1 DEF ReadAs
  <2>3. PICK r \in Replies(p.type) : toServer' = toServer \o r
    BY <2>1
  <2>4. /\ Len(toClient) \in Nat /\ Len(toClient) # 0 /\ p = toClient[1]
        /\ 1 \in 1..Len(toClient)
    BY <1>1, HeadTailProperties, LenProperties, EmptySeq
  <2> HIDE DEF p
  <2>5. CASE ~loggedIn
    <3>1. connected
      BY <1>1, <2>5 DEF CrewInv, LettingIn
    <3>2. CASE toClient = <<Message("welcome")>> /\ toServer = <<>>
      <4>1. p.type = "welcome" /\ toClient' = <<>>
        BY <2>1, <2>4, <3>2, Singles DEF Message
      <4>2. r \in {<<"login">>, <<"wrong login">>}
        BY <2>3, <4>1, RepliesKnown
      <4>3. toServer' \in {<<"login">>, <<"wrong login">>}
        BY <2>3, <3>2, <4>2, EmptyFirst
      <4>4. LettingIn'
        BY <2>1, <2>5, <3>1, <4>1, <4>3 DEF CrewInv, LettingIn, Idle
      <4>5. LetIn' /\ Knows'
        BY <2>1, <2>5 DEF LetIn, Knows
      <4> QED BY <2>1, <4>4, <4>5 DEF CrewInv, Idle
    <3>3. CASE toClient = <<Message("denied")>>
      BY <1>3, <2>4, <3>3, Singles DEF Message
    <3> QED BY <1>1, <2>5, <3>1, <3>2, <3>3 DEF CrewInv, LettingIn
  <2>6. CASE loggedIn
    <3>1. ASSUME OnlyAfter(toClient, 0, LaterTypes)
          PROVE  /\ r = <<>> /\ p.type \in LaterTypes
                 /\ OnlyAfter(toClient', 0, LaterTypes)
      <4>1. p.type \in LaterTypes
        BY <2>4, <3>1 DEF OnlyAfter
      <4>2. p.type \notin {"welcome", "accepted"}
        BY <4>1 DEF LaterTypes, CrewTypes, SightTypes
      <4>3. r = <<>>
        BY <2>3, <4>2, RepliesKnown
      <4>4. OnlyAfter(toClient', 0, LaterTypes)
        BY <1>1, <2>1, <3>1, HeadRead
      <4> QED BY <4>1, <4>3, <4>4
    <3>2. ASSUME Accepting PROVE Requesting'
      <4>1. p.type = "accepted" /\ toServer = <<>> /\ worker.at # "answers"
        BY <2>4, <3>2 DEF Accepting
      <4>2. r = <<"request">>
        BY <2>3, <4>1, RepliesKnown
      <4>3. toServer' = <<"request">>
        BY <2>3, <4>1, <4>2, EmptyFirst
      <4>4. OnlyAfter(toClient', 0, LaterTypes)
        <5>1. OnlyAfter(toClient, 1, LaterTypes)
          BY <3>2 DEF Accepting
        <5> QED BY <1>1, <2>1, <5>1, HeadRead
      <4> QED BY <2>1, <4>1, <4>3, <4>4 DEF Requesting
    <3>3. ASSUME Requesting PROVE Requesting'
      <4>1. OnlyAfter(toClient', 0, LaterTypes) /\ toServer' = <<"request">>
        BY <2>3, <3>1, <3>3, EmptyFirst DEF Requesting
      <4> QED BY <2>1, <3>3, <4>1 DEF Requesting
    <3>4. ASSUME Answering PROVE Answering'
      <4>1. OnlyAfter(toClient', 0, LaterTypes) /\ toServer' = <<>>
        BY <2>3, <3>1, <3>4, EmptyFirst DEF Answering
      <4> QED BY <2>1, <3>4, <4>1 DEF Answering
    <3>5. ASSUME Following PROVE Following'
      <4>1. OnlyAfter(toClient', 0, LaterTypes) /\ toServer' = <<>>
        BY <2>3, <3>1, <3>5, EmptyFirst DEF Following
      <4>2. told => TellsLast(toClient', named', manned)
        BY <1>1, <2>1, <2>2, <3>5, TellsTail DEF Following, p
      <4> QED BY <2>1, <3>5, <4>1, <4>2 DEF Following, Idle
    <3>6. LetIn'
      <4>1. connected /\ (Accepting \/ Requesting \/ Answering \/ Following)
        BY <2>6 DEF CrewInv, LetIn
      <4>2. Accepting \/ Requesting => Requesting'
        BY <3>2, <3>3
      <4> QED BY <2>1, <3>4, <3>5, <4>1, <4>2 DEF LetIn
    <3>7. LettingIn' /\ Knows'
      BY <2>1, <2>6 DEF CrewInv, LettingIn, Knows
    <3> QED BY <2>1, <3>6, <3>7 DEF CrewInv, Idle
  <2> QED BY <2>5, <2>6
<1> QED BY <1>2, <1>3

(* At first the client is not connected. *)
LEMMA CrewInvInit == ViewInit => CrewInv
BY IdleWaits DEF ViewInit, CrewInv, LettingIn, LetIn, Knows

(* Each step keeps CrewInv. *)
LEMMA CrewInvStep ==
  ASSUME ClientViewAssumption, ViewTypeOK, CrewInv, [ViewNext]_viewVars
  PROVE  CrewInv'
<1>1. ASSUME UNCHANGED viewVars PROVE CrewInv'
  BY <1>1 DEF viewVars, connection, status, CrewInv, LettingIn, LetIn, Knows, Accepting, Requesting,
              Answering, Following, TellsLast, OnlyAfter, Idle
<1>2. ASSUME Disconnect PROVE CrewInv'
  BY <1>2, LoseKeepsCrew DEF Disconnect
<1> QED BY <1>1, <1>2, ManConsoleKeepsCrew, DelConsoleKeepsCrew, UpdateKeepsCrew, LoginKeepsCrew,
       DeniedKeepsCrew, FindsKeepsCrew, EndsKeepsCrew, RequestKeepsCrew, AnswerKeepsCrew,
       ReadKeepsCrew, ConnectKeepsCrew DEF ViewNext, Serve

(* CrewInv says what the client is shown when nothing is under way. *)
LEMMA CrewInvTells ==
  ASSUME ViewTypeOK, CrewInv
  PROVE  CrewIsShown
<1> SUFFICES ASSUME Settled, told PROVE ship = manned /\ named = manned
  BY DEF CrewIsShown
<1>1. toClient \in Seq(Packets) /\ DOMAIN toClient = 1..Len(toClient)
  BY LenProperties DEF ViewTypeOK
<1>2. /\ loggedIn /\ worker = Idle /\ toServer = <<>>
      /\ \A k \in 1..Len(toClient) : toClient[k].type \in SightTypes
  BY <1>1 DEF Settled, SightTypes
<1>3. ship = manned
  BY <1>2, IdleWaits DEF CrewInv, Knows
<1>4. Following
  <2>1. ~Accepting
    <3> SUFFICES ASSUME Accepting PROVE FALSE
      OBVIOUS
    <3>1. 1 \in 1..Len(toClient) /\ toClient[1].type = "accepted"
      BY <1>1, EmptySeq DEF Accepting
    <3> QED BY <1>2, <3>1 DEF SightTypes
  <2>2. ~Requesting /\ ~Answering
    BY <1>2, IdleWaits, Singles DEF Requesting, Answering
  <2> QED BY <1>2, <2>1, <2>2 DEF CrewInv, LetIn
<1>5. named = manned
  <2>1. TellsLast(toClient, named, manned)
    BY <1>4 DEF Following
  <2>2. \A k \in 1..Len(toClient) : toClient[k] # Manning(manned)
    BY <1>2, ManningTypes DEF SightTypes, CrewTypes
  <2> QED BY <2>1, <2>2 DEF TellsLast
<1> QED BY <1>3, <1>5

(* The state of HSClientConnection, of the worker and of HSClientWindow    *)
(* keeps its types: a contact of the client has every field, the fields    *)
(* that were never sent included, and each packet on the way is one that   *)
(* the client knows.                                                       *)
THEOREM ViewTypeCorrect == ViewSpec => []ViewTypeOK
<1>1. ViewInit => ViewTypeOK
  BY ClientViewAssumption, ViewTypeInit
<1>2. ViewTypeOK /\ [ViewNext]_viewVars => ViewTypeOK'
  BY ClientViewAssumption, ViewTypeStep
<1> QED BY <1>1, <1>2, PTL DEF ViewSpec

(* When nothing that tells of the crew is under way, the client that has   *)
(* been told names the ship whose console its player mans, however login,  *)
(* request and changes of the console cross                                *)
(* (HSClientConnection::HandlePacket, HandleMessage, ConsoleUpdate).       *)
THEOREM TheCrewIsShown == ViewSpec => []CrewIsShown
<1>1. ViewInit => CrewInv
  BY CrewInvInit
<1>2. ViewTypeOK /\ CrewInv /\ [ViewNext]_viewVars => CrewInv'
  BY ClientViewAssumption, CrewInvStep
<1>3. ViewTypeOK /\ CrewInv => CrewIsShown
  BY CrewInvTells
<1> QED BY <1>1, <1>2, <1>3, ViewTypeCorrect, PTL DEF ViewSpec

-----------------------------------------------------------------------------
(* What the client shows of contacts and navigation.                       *)

(* What reading a packet does to what the client shows.                    *)
Notes == [p \in Packets |-> [v \in Views |-> Noted(p, v)]]

(* What each packet makes of each view is a view. *)
LEMMA NotesTyped == Notes \in [Packets -> [Views -> Views]]
BY NotedTyped DEF Notes

(* The view that the model works out packet by packet is the outcome of    *)
(* reading them.                                                           *)
LEMMA ShownIsOutcome ==
  ASSUME NEW v \in Views, NEW s \in Seq(Packets)
  PROVE  Shown(v, s) = Outcome(Notes, v, s)
<1> DEFINE Does(g) == g = [k \in 0..Len(s) |->
                             IF k = 0 THEN v ELSE Noted(s[k], g[k - 1])]
           c == CHOOSE g : Does(g)
<1>1. Shown(v, s) = c[Len(s)]
  BY DEF Shown
<1>2. Len(s) \in Nat /\ \A k \in 1..Len(s) : s[k] \in Packets
  BY LenProperties, ElementOfSeq
<1>3. PICK g : g \in [0..Len(s) -> Views] /\ GoesAlong(g, Notes, v, s)
  BY NotesTyped, RunExists
<1>4. Does(g)
  <2> DEFINE f == [k \in 0..Len(s) |->
                     IF k = 0 THEN v ELSE Noted(s[k], g[k - 1])]
  <2>1. g[0] = v /\ \A k \in 1..Len(s) : g[k] = Notes[s[k]][g[k - 1]]
    BY <1>2, <1>3, RunFrom
  <2>2. ASSUME NEW k \in 0..Len(s) PROVE g[k] = f[k]
    <3>1. CASE k = 0
      BY <2>1, <3>1
    <3>2. CASE k # 0
      <4>1. k \in 1..Len(s) /\ k - 1 \in 0..Len(s)
        BY <1>2, <3>2
      <4>2. s[k] \in Packets /\ g[k - 1] \in Views /\ g[k] = Notes[s[k]][g[k - 1]]
        BY <1>2, <1>3, <2>1, <4>1
      <4> QED BY <3>2, <4>2 DEF Notes
    <3> QED BY <3>1, <3>2
  <2>3. DOMAIN g = 0..Len(s) /\ g = [k \in 0..Len(s) |-> g[k]]
    BY <1>3
  <2> QED BY <2>2, <2>3
<1>5. Does(c)
  <2> HIDE DEF Does
  <2> QED BY <1>4
<1> HIDE DEF c
<1>6. c[0] = v /\ DOMAIN c = 0..Len(s)
      /\ \A k \in 1..Len(s) : c[k] = Noted(s[k], c[k - 1])
  <2> DEFINE f == [k \in 0..Len(s) |->
                     IF k = 0 THEN v ELSE Noted(s[k], c[k - 1])]
  <2>1. c = f
    BY <1>5
  <2>2. f[0] = v /\ DOMAIN f = 0..Len(s)
        /\ \A k \in 1..Len(s) : f[k] = Noted(s[k], c[k - 1])
    BY <1>2
  <2> HIDE DEF f
  <2> QED BY <2>1, <2>2
<1> DEFINE Q == {k \in 0..Len(s) : c[k] = g[k]}
           zero == 0
           n == Len(s)
<1>7. zero \in Q /\ zero \in Int /\ n \in Int /\ n \in zero..n
  <2>1. g[0] = v
    BY <1>2, <1>3, RunFrom
  <2> QED BY <1>2, <1>6, <2>1
<1>8. ASSUME NEW k \in zero..n, k # zero, k - 1 \in Q
      PROVE  k \in Q
  <2>1. k \in 1..Len(s) /\ k \in 0..Len(s) /\ k - 1 \in 0..Len(s) /\ c[k - 1] = g[k - 1]
    BY <1>2, <1>8
  <2>2. g[k] = Notes[s[k]][g[k - 1]]
    BY <1>2, <1>3, <2>1, RunFrom
  <2>3. s[k] \in Packets /\ g[k - 1] \in Views
    BY <1>2, <1>3, <2>1
  <2>4. Notes[s[k]][g[k - 1]] = Noted(s[k], g[k - 1])
    BY <2>3 DEF Notes
  <2>5. c[k] = g[k]
    BY <1>6, <2>1, <2>2, <2>4
  <2> QED BY <2>1, <2>5
<1>9. zero..n \subseteq Q
  <2> HIDE DEF Q, zero, n
  <2> QED BY <1>7, <1>8, IntervalInduction
<1>10. c[Len(s)] = g[Len(s)]
  BY <1>7, <1>9
<1>11. g[Len(s)] = Outcome(Notes, v, s)
  BY <1>2, <1>3, OutcomeOfRun
<1> QED BY <1>1, <1>10, <1>11

(* What is shown and what is noted as sent agree but for n small steps.    *)
Tracks(shown, noted, n) == UpToDate(shown, noted, n) /\ shown.place \in Int

(* A client that shows v shows what the server believes it does.           *)
Agrees(v) ==
  /\ \A i \in Ids :
       IF current[i] = Nothing THEN v.contacts[i] # Nothing => i \in ghosts
       ELSE v.contacts[i] # Nothing /\ Tracks(v.contacts[i], current[i], unsent[i])
  /\ last # Nothing => Tracks(v.nav, last, unsentNav)

(* The view and the packets on the way, by the types of the state. *)
LEMMA ViewTyped == ViewTypeOK => view \in Views /\ toClient \in Seq(Packets)
BY DEF ViewTypeOK, Views, view

(* ViewAgrees, from a property of that outcome. *)
LEMMA AgreesIsViewAgrees ==
  ASSUME ViewTypeOK, Agrees(Outcome(Notes, view, toClient))
  PROVE  ViewAgrees
<1>1. Shown(view, toClient) = Outcome(Notes, view, toClient)
  BY ViewTyped, ShownIsOutcome
<1> QED BY <1>1 DEF ViewAgrees, Agrees, Tracks

(* Packets that are not about what is seen leave what is shown.            *)
LEMMA QuietPacket ==
  ASSUME NEW p \in Packets, NEW v \in Views, p.type \notin {"contact", "navstat"}
  PROVE  Notes[p][v] = v
BY DEF Notes, Noted, Views

(* Neither does it when it is read after others. *)
LEMMA OutcomeOfQuiet ==
  ASSUME NEW s \in Seq(Packets), NEW p \in Packets, NEW v \in Views,
         p.type \notin {"contact", "navstat"}
  PROVE  Outcome(Notes, v, Append(s, p)) = Outcome(Notes, v, s)
<1>1. Outcome(Notes, v, s) \in Views
  BY NotesTyped, OutcomeTyped
<1>2. Outcome(Notes, v, Append(s, p)) = Notes[p][Outcome(Notes, v, s)]
  BY NotesTyped, OutcomeOfAppend
<1> QED BY <1>1, <1>2, QuietPacket

(* A contact packet tells of one contact, whatever is known of the others. *)
LEMMA ContactNoted ==
  ASSUME NEW p \in ContactSights, NEW v \in Views, NEW w \in Views,
         v.contacts[p.id] = w.contacts[p.id]
  PROVE  /\ Notes[p][v].nav = v.nav
         /\ \A i \in Ids : Notes[p][v].contacts[i]
                            = IF i = p.id THEN HandleContactPacket(p, w.contacts)[i] ELSE v.contacts[i]
<1>1. p \in Packets /\ p.type = "contact" /\ p.id \in Ids
  BY PacketsKnown DEF ContactSights
<1>2. Notes[p][v].nav = v.nav /\ Notes[p][v].contacts = HandleContactPacket(p, v.contacts)
  BY <1>1 DEF Notes, Noted
<1> DEFINE a == v.contacts
           b == w.contacts
           new == IF p.removed /\ a[p.id] # Nothing THEN Nothing
                  ELSE Retrieved(p.fields, IF a[p.id] = Nothing THEN [f \in ContactFields |-> Nothing]
                                           ELSE a[p.id])
<1>3. DOMAIN a = Ids /\ DOMAIN b = Ids /\ a[p.id] = b[p.id]
  BY DEF Views
<1> HIDE DEF a, b
<1>4. HandleContactPacket(p, a) = [a EXCEPT ![p.id] = new]
  BY DEF HandleContactPacket
<1>5. HandleContactPacket(p, b) = [b EXCEPT ![p.id] = new]
  BY <1>3 DEF HandleContactPacket
<1> HIDE DEF new
<1>6. ASSUME NEW i \in Ids
      PROVE  HandleContactPacket(p, a)[i]
               = IF i = p.id THEN HandleContactPacket(p, b)[i] ELSE a[i]
  BY <1>1, <1>3, <1>4, <1>5
<1> QED BY <1>2, <1>6 DEF a, b

(* What shows v shows w when it knows what the packets say of S.            *)
Learns(v, w, S, packet) ==
  /\ w.nav = v.nav
  /\ \A i \in Ids : w.contacts[i] = IF i \in S THEN HandleContactPacket(packet[i], v.contacts)[i]
                                     ELSE v.contacts[i]

(* The packets of a loop over contacts, each with its number, come to what *)
(* each of them says.                                                      *)
LEMMA OutcomeOfContacts ==
  ASSUME NEW S, S \subseteq Ids, NEW packet \in [S -> ContactSights],
         \A i \in S : packet[i].id = i,
         NEW s \in Seq(ContactSights), ListsEach(s, S, packet), NEW v \in Views
  PROVE  Learns(v, Outcome(Notes, v, s), S, packet)
<1>1. s \in Seq(Packets)
  BY PacketsKnown, SeqMonotonic
<1>2. PICK n \in Nat : \E ids \in [1..n -> S] :
        /\ s = [k \in 1..n |-> packet[ids[k]]]
        /\ \A k, l \in 1..n : ids[k] = ids[l] => k = l
        /\ \A i \in S : \E k \in 1..n : ids[k] = i
  BY DEF ListsEach
<1>3. PICK ids \in [1..n -> S] :
        /\ s = [k \in 1..n |-> packet[ids[k]]]
        /\ \A k, l \in 1..n : ids[k] = ids[l] => k = l
        /\ \A i \in S : \E k \in 1..n : ids[k] = i
  BY <1>2
<1>4. Len(s) = n
  BY <1>1, <1>3, LenProperties
<1>5. PICK g : g \in [0..Len(s) -> Views] /\ GoesAlong(g, Notes, v, s)
  BY <1>1, NotesTyped, RunExists
<1>6. g[0] = v /\ \A k \in 1..n : g[k] = Notes[s[k]][g[k - 1]]
  <2>1. Len(s) \in Nat
    BY <1>4
  <2>2. g[0] = v /\ \A k \in 1..Len(s) : g[k] = Notes[s[k]][g[k - 1]]
    BY <1>5, <2>1, RunFrom
  <2> QED BY <1>4, <2>2
<1> DEFINE Done(k) ==
             /\ g[k].nav = v.nav
             /\ \A i \in Ids : g[k].contacts[i]
                                = IF \E l \in 1..k : ids[l] = i
                                  THEN HandleContactPacket(packet[i], v.contacts)[i]
                                  ELSE v.contacts[i]
           Q == {k \in 0..n : Done(k)}
           zero == 0
<1>7. zero \in Q /\ zero \in Int /\ n \in Int /\ n \in zero..n
  BY <1>6
<1>8. ASSUME NEW k \in zero..n, k # zero, k - 1 \in Q
      PROVE  k \in Q
  <2> DEFINE p == s[k]
             w == g[k - 1]
  <2>1. k \in 1..n /\ k - 1 \in 0..n /\ Done(k - 1)
    BY <1>8
  <2>2. ids[k] \in S /\ p = packet[ids[k]]
    BY <1>3, <2>1
  <2>3. p \in ContactSights /\ p.id = ids[k] /\ p.id \in Ids
    BY <2>2
  <2>4. w \in Views /\ g[k] = Notes[p][w]
    BY <1>4, <1>5, <1>6, <2>1
  <2>5. ~ \E l \in 1..(k - 1) : ids[l] = p.id
    BY <1>3, <2>1, <2>3
  <2>6. w.contacts[p.id] = v.contacts[p.id]
    BY <2>1, <2>3, <2>5
  <2>7. w.nav = v.nav
    BY <2>1
  <2>8. \A i \in Ids : w.contacts[i] = IF \E l \in 1..(k - 1) : ids[l] = i
                                       THEN HandleContactPacket(packet[i], v.contacts)[i]
                                       ELSE v.contacts[i]
    BY <2>1
  <2>9. \A i : (\E l \in 1..k : ids[l] = i) <=> i = p.id \/ \E l \in 1..(k - 1) : ids[l] = i
    <3>1. \A l : l \in 1..k <=> l = k \/ l \in 1..(k - 1)
      BY <2>1
    <3> QED BY <2>3, <3>1, Zenon
  <2> HIDE DEF p, w
  <2>10. /\ g[k].nav = w.nav
         /\ \A i \in Ids : g[k].contacts[i]
                            = IF i = p.id THEN HandleContactPacket(p, v.contacts)[i] ELSE w.contacts[i]
    BY <2>3, <2>4, <2>6, ContactNoted
  <2>11. packet[p.id] = p
    BY <2>2, <2>3
  <2>12. ASSUME NEW i \in Ids
         PROVE  g[k].contacts[i] = IF \E l \in 1..k : ids[l] = i
                                   THEN HandleContactPacket(packet[i], v.contacts)[i]
                                   ELSE v.contacts[i]
    <3>1. CASE i = p.id
      <4>1. \E l \in 1..k : ids[l] = i
        BY <2>9, <3>1
      <4>2. g[k].contacts[i] = HandleContactPacket(packet[i], v.contacts)[i]
        BY <2>10, <2>11, <3>1
      <4> QED BY <4>1, <4>2
    <3>2. CASE i # p.id
      <4>1. g[k].contacts[i] = w.contacts[i]
        BY <2>10, <3>2
      <4>2. (\E l \in 1..k : ids[l] = i) <=> \E l \in 1..(k - 1) : ids[l] = i
        BY <2>9, <3>2
      <4> QED BY <2>8, <4>1, <4>2
    <3> QED BY <3>1, <3>2
  <2>13. Done(k)
    BY <2>7, <2>10, <2>12
  <2> QED BY <2>1, <2>13
<1>9. zero..n \subseteq Q
  <2> HIDE DEF Q, zero
  <2> QED BY <1>7, <1>8, IntervalInduction
<1>10. Done(n)
  BY <1>7, <1>9
<1>11. g[n] = Outcome(Notes, v, s)
  BY <1>4, <1>5, OutcomeOfRun
<1>12. \A i \in Ids : (\E l \in 1..n : ids[l] = i) <=> i \in S
  BY <1>3
<1> HIDE DEF Q, zero
<1> QED BY <1>10, <1>11, <1>12 DEF Learns

(* A packet of all the fields shows all of them. *)
LEMMA AllShown ==
  ASSUME NEW F, "place" \in F, NEW V, NEW new \in [F -> V], new.place \in Int,
         new # Nothing, NEW shown, DOMAIN shown = F, NEW n
  PROVE  /\ Retrieved(ByteStream(new, Nothing), shown) = new
         /\ Latest(new, Nothing) = new /\ Unsent(new, Nothing, n) = 0
         /\ Tracks(new, new, 0)
<1>1. ByteStream(new, Nothing) = new /\ DOMAIN new = F /\ new = [f \in F |-> new[f]]
  BY DEF ByteStream
<1>2. Retrieved(new, shown) = [f \in F |-> new[f]]
  BY <1>1 DEF Retrieved
<1>3. Latest(new, Nothing) = new
  BY <1>1 DEF Latest
<1>4. Unsent(new, Nothing, n) = 0
  BY DEF Unsent
<1>5. Tracks(new, new, 0)
  BY DEF Tracks, UpToDate
<1> QED BY <1>1, <1>2, <1>3, <1>4, <1>5

(* What a packet of differences makes of what is shown agrees with what is *)
(* noted after it, and the steps that it hides are counted.                *)
LEMMA DifferenceTracks ==
  ASSUME NEW F, "place" \in F, NEW V, NEW new \in [F -> V], new.place \in Int, new # Nothing,
         NEW old \in [F -> V], old.place \in Int, old # Nothing,
         NEW shown, DOMAIN shown = F, NEW n \in Nat, Tracks(shown, old, n)
  PROVE  IF ByteStream(new, old) = <<>>
         THEN Latest(new, old) = old /\ Unsent(new, old, n) = n
         ELSE Tracks(Retrieved(ByteStream(new, old), shown), Latest(new, old), Unsent(new, old, n))
<1> DEFINE changed == {f \in F : ~Same(f, new[f], old[f])}
           sent == ByteStream(new, old)
           got == Retrieved(sent, shown)
<1>1. sent = [f \in changed |-> new[f]] /\ DOMAIN new = F /\ DOMAIN old = F
  BY DEF ByteStream
<1>2. got = [f \in F |-> IF f \in changed THEN new[f] ELSE shown[f]]
  <2> HIDE DEF changed, sent
  <2> QED BY <1>1 DEF Retrieved
<1>3. /\ \A f \in F \ {"place"} : shown[f] = old[f]
      /\ shown.place - old.place \in -n..n /\ shown.place \in Int
  BY <1>1 DEF Tracks, UpToDate
<1>4. ASSUME NEW f \in F \ {"place"} PROVE got[f] = new[f]
  <2>1. f \notin changed => new[f] = old[f]
    BY DEF Same
  <2> HIDE DEF changed, got
  <2> QED BY <1>2, <1>3, <2>1
<1>5. "place" \in changed <=> ~(new.place - old.place \in -1..1)
  BY DEF Same
<1>6. Latest(new, old) = IF sent = <<>> THEN old ELSE new
  BY DEF Latest
<1>7. CASE sent = <<>>
  <2>1. DOMAIN sent = {}
    BY <1>7
  <2>2. Unsent(new, old, n) = n
    BY <1>7, <2>1 DEF Unsent
  <2> QED BY <1>6, <1>7, <2>2
<1>8. CASE sent # <<>> /\ "place" \in changed
  <2>1. Unsent(new, old, n) = 0
    <3>1. "place" \in DOMAIN sent
      BY <1>1, <1>8
    <3> QED BY <3>1 DEF Unsent
  <2>2. got["place"] = new["place"]
    <3> HIDE DEF changed, got
    <3> QED BY <1>2, <1>8
  <2> HIDE DEF sent, got, changed
  <2>3. Tracks(got, new, 0)
    BY <1>1, <1>4, <2>2 DEF Tracks, UpToDate
  <2> QED BY <1>6, <1>8, <2>1, <2>3 DEF sent, got
<1>9. CASE sent # <<>> /\ "place" \notin changed
  <2> DEFINE m == IF new.place # old.place THEN n + 1 ELSE n
  <2>1. Unsent(new, old, n) = m
    <3>1. "place" \notin DOMAIN sent
      BY <1>1, <1>9
    <3> QED BY <1>9, <3>1 DEF Unsent
  <2>2. got["place"] = shown["place"]
    <3> HIDE DEF changed, got
    <3> QED BY <1>2, <1>9
  <2>3. new.place - old.place \in -1..1
    BY <1>5, <1>9
  <2>4. shown.place - new.place \in -m..m
    BY <1>3, <2>3
  <2> HIDE DEF sent, got, changed, m
  <2>5. Tracks(got, new, m)
    BY <1>1, <1>3, <1>4, <2>2, <2>4 DEF Tracks, UpToDate
  <2> QED BY <1>6, <1>9, <2>1, <2>5 DEF sent, got
<1> QED BY <1>7, <1>8, <1>9

(* What a packet of differences makes of a contact that is shown.          *)
LEMMA DifferenceShown ==
  ASSUME ClientViewAssumption, ViewTypeOK, NEW p \in Scans, NEW i \in Differ(p),
         NEW v \in Views, Agrees(v)
  PROVE  LET got == HandleContactPacket(DifferPacket(p)[i], v.contacts)[i]
         IN  /\ got # Nothing
             /\ Tracks(got, Latest(p[i], current[i]), Unsent(p[i], current[i], unsent[i]))
<1> DEFINE known == v.contacts
           q == DifferPacket(p)[i]
           old == IF known[i] = Nothing THEN [f \in ContactFields |-> Nothing] ELSE known[i]
           new == p[i]
           Looks == [ContactFields -> Values \cup {Nothing}]
           got == Retrieved(ByteStream(new, current[i]), old)
<1>1. /\ i \in Ids /\ new # Nothing /\ ByteStream(new, current[i]) # <<>>
      /\ new \in [ContactFields -> Values] /\ new.place \in Int
      /\ q = ContactPacket(i, ByteStream(new, current[i]), FALSE)
  BY DEF Differ, DifferPacket, Scans, Sights
<1>2. q.id = i /\ q.removed = FALSE /\ q.fields = ByteStream(new, current[i])
  BY <1>1 DEF ContactPacket
<1>3. known \in [Ids -> Looks \cup {Nothing}] /\ known[i] \in Looks \cup {Nothing} /\ old \in Looks
  BY <1>1 DEF Views
<1>4. HandleContactPacket(q, known)[i] = got
  <2> HIDE DEF q, known
  <2> QED BY <1>1, <1>2, <1>3 DEF HandleContactPacket
<1>5. DOMAIN old = ContactFields /\ "place" \in ContactFields
  BY <1>3 DEF ContactFields
<1>6. /\ current[i] # Nothing => /\ current[i] \in [ContactFields -> Values]
                                /\ current[i].place \in Int
      /\ unsent[i] \in Nat
  BY <1>1 DEF ViewTypeOK, Sights
<1>7. current[i] # Nothing => old = known[i] /\ Tracks(known[i], current[i], unsent[i])
  BY <1>1 DEF Agrees
<1>8. got # Nothing
  <2>1. new \in Looks
    BY <1>1
  <2>2. ByteStream(new, current[i]) \in Parts(ContactFields, Values \cup {Nothing})
    BY <2>1, ByteStreamTyped
  <2>3. got \in Looks
    <3> HIDE DEF old
    <3> QED BY <1>3, <2>2, RetrievedTyped
  <2> HIDE DEF got
  <2> QED BY <2>3 DEF ClientViewAssumption
<1> HIDE DEF old, new, q, got
<1>9. Tracks(got, Latest(new, current[i]), Unsent(new, current[i], unsent[i]))
  <2>1. CASE current[i] = Nothing
    <3> DEFINE n == unsent[i]
    <3> HIDE DEF n
    <3>1. /\ Retrieved(ByteStream(new, Nothing), old) = new /\ Latest(new, Nothing) = new
          /\ Unsent(new, Nothing, n) = 0 /\ Tracks(new, new, 0)
      BY <1>1, <1>5, AllShown
    <3> QED BY <2>1, <3>1 DEF got, n
  <2>2. CASE current[i] # Nothing
    <3> DEFINE c == current[i]
               n == unsent[i]
    <3>1. Tracks(old, c, n) /\ c # Nothing /\ ByteStream(new, c) # <<>>
      BY <1>1, <1>7, <2>2
    <3>2. c \in [ContactFields -> Values] /\ c.place \in Int /\ n \in Nat
      BY <1>6, <2>2
    <3> HIDE DEF c, n
    <3>3. Tracks(Retrieved(ByteStream(new, c), old), Latest(new, c), Unsent(new, c, n))
      BY <1>1, <1>5, <3>1, <3>2, DifferenceTracks
    <3> QED BY <3>3 DEF c, n, got
  <2> QED BY <2>1, <2>2
<1> QED BY <1>4, <1>8, <1>9 DEF new, q

(* A contact that vanished is taken from the list, whatever the field      *)
(* holds.                                                                  *)
LEMMA RemovalShown ==
  ASSUME NEW p, NEW garbage, NEW i \in Vanished(p), NEW v \in Views, Agrees(v)
  PROVE  HandleContactPacket(VanishedPacket(p, garbage)[i], v.contacts)[i] = Nothing
<1> DEFINE q == VanishedPacket(p, garbage)[i]
           known == v.contacts
<1>1. q.id = i /\ q.removed = TRUE /\ i \in Ids
  BY DEF VanishedPacket, Vanished, ContactPacket
<1>2. known[i] # Nothing /\ DOMAIN known = Ids
  BY DEF Agrees, Vanished, Views
<1> HIDE DEF q, known
<1>3. HandleContactPacket(q, known)[i] = Nothing
  BY <1>1, <1>2 DEF HandleContactPacket
<1> QED BY <1>3 DEF q, known

(* So it is with the navigation, which changes no contact. *)
LEMMA NavShown ==
  ASSUME ClientViewAssumption, ViewTypeOK, NEW n \in NavStats, NEW v \in Views, Agrees(v)
  PROVE  /\ Tracks(Outcome(Notes, v, NavPackets(n)).nav, Latest(n, last), Unsent(n, last, unsentNav))
         /\ Outcome(Notes, v, NavPackets(n)).contacts = v.contacts
<1> DEFINE sent == ByteStream(n, last)
           nav0 == v.nav
<1>1. /\ n \in [NavFields -> Values] /\ n.place \in Int /\ n # Nothing
      /\ nav0 \in [NavFields -> Values] /\ DOMAIN nav0 = NavFields /\ "place" \in NavFields
  BY DEF ClientViewAssumption, Bearings, Views, NavFields
<1>2. last # Nothing => /\ last \in [NavFields -> Values] /\ last.place \in Int
                        /\ Tracks(nav0, last, unsentNav) /\ unsentNav \in Nat
  BY DEF ViewTypeOK, ClientViewAssumption, Bearings, Agrees
<1> HIDE DEF nav0
<1>3. CASE sent = <<>>
  <2>1. NavPackets(n) = <<>>
    BY <1>3 DEF NavPackets
  <2>2. last # Nothing
    <3> SUFFICES ASSUME last = Nothing PROVE FALSE
      OBVIOUS
    <3>1. n = <<>>
      BY <1>3 DEF ByteStream
    <3>2. DOMAIN n = NavFields
      BY <1>1
    <3> QED BY <1>1, <3>1, <3>2
  <2>3. Latest(n, last) = last /\ Unsent(n, last, unsentNav) = unsentNav
    BY <1>1, <1>2, <1>3, <2>2, DifferenceTracks
  <2>4. Outcome(Notes, v, <<>>) = v
    BY NotesTyped, OutcomeOfNothing
  <2> QED BY <1>2, <2>1, <2>2, <2>3, <2>4 DEF nav0
<1>4. CASE sent # <<>>
  <2> DEFINE p == [type |-> "navstat", fields |-> sent]
             got == Retrieved(sent, nav0)
  <2>1. NavPackets(n) = <<p>>
    BY <1>4 DEF NavPackets
  <2>2. p \in Packets
    <3>1. sent \in Parts(NavFields, Values)
      BY <1>1, ByteStreamTyped
    <3> HIDE DEF sent
    <3> QED BY <3>1 DEF Packets
  <2>3. Outcome(Notes, v, <<p>>) = Notes[p][v]
    <3> HIDE DEF p
    <3> QED BY <2>2, NotesTyped, OutcomeOfOne
  <2>4. Notes[p][v] = Noted(p, v)
    <3> HIDE DEF p
    <3> QED BY <2>2 DEF Notes
  <2>5. Noted(p, v).nav = got /\ Noted(p, v).contacts = v.contacts
    <3> HIDE DEF sent
    <3> QED BY DEF Noted, HandleNavPacket, nav0
  <2>6. Tracks(got, Latest(n, last), Unsent(n, last, unsentNav))
    <3>1. CASE last = Nothing
      <4> DEFINE k == unsentNav
      <4>1. /\ Retrieved(ByteStream(n, Nothing), nav0) = n /\ Latest(n, Nothing) = n
            /\ Unsent(n, Nothing, k) = 0 /\ Tracks(n, n, 0)
        <5> HIDE DEF k
        <5> QED BY <1>1, AllShown
      <4> QED BY <3>1, <4>1
    <3>2. CASE last # Nothing
      <4>1. Tracks(Retrieved(ByteStream(n, last), nav0), Latest(n, last), Unsent(n, last, unsentNav))
        BY <1>1, <1>2, <1>4, <3>2, DifferenceTracks
      <4> QED BY <4>1
    <3> QED BY <3>1, <3>2
  <2> HIDE DEF p, got
  <2> QED BY <2>1, <2>3, <2>4, <2>5, <2>6
<1> QED BY <1>3, <1>4

(* UpdateClient, in one: navigation, what differs, what is gone.           *)
LEMMA UpdateAgrees ==
  ASSUME ClientViewAssumption, ViewTypeOK, UpdateClient, Agrees(Outcome(Notes, view, toClient))
  PROVE  Agrees(Outcome(Notes, view, toClient))'
<1>1. PICK n \in NavStats, p \in Pictures \cup {current}, garbage \in Garbage :
        /\ last' = Latest(n, last)
        /\ current' = [i \in Ids |-> Latest(p[i], current[i])]
        /\ unsentNav' = Unsent(n, last, unsentNav)
        /\ unsent' = [i \in Ids |-> Unsent(p[i], current[i], unsent[i])]
        /\ toClient' = toClient \o NavPackets(n) \o ContactPackets(p, garbage)
  BY DEF UpdateClient, Garbage
<1>2. UNCHANGED <<view, ghosts>> /\ p \in Scans
  BY DEF UpdateClient, status, view, ClientViewAssumption, ViewTypeOK, Scans
<1> DEFINE v == Outcome(Notes, view, toClient)
           nav0 == NavPackets(n)
           d == InSomeOrder(DifferPacket(p))
           g == InSomeOrder(VanishedPacket(p, garbage))
           w == Outcome(Notes, v, nav0)
           x == Outcome(Notes, w, d)
           y == Outcome(Notes, x, g)
<1>3. view \in Views /\ toClient \in Seq(Packets) /\ view' = view
  BY <1>2, ViewTyped
<1>4. /\ nav0 \in Seq(Packets) /\ d \in Seq(ContactSights) /\ g \in Seq(ContactSights)
      /\ d \in Seq(Packets) /\ g \in Seq(Packets)
  BY <1>2, SightsTyped, ContactPacketsTyped, PacketsKnown, SeqMonotonic
<1>5. toClient' = (toClient \o nav0) \o (d \o g)
  BY <1>1, ContactPacketsSplit
<1>6. v \in Views
  BY <1>3, NotesTyped, OutcomeTyped
<1>7. Agrees(v)
  OBVIOUS
<1> HIDE DEF v
<1>8. w \in Views
  BY <1>4, <1>6, NotesTyped, OutcomeTyped
<1>9. Tracks(w.nav, last', unsentNav') /\ w.contacts = v.contacts
  BY <1>1, <1>6, <1>7, NavShown
<1> HIDE DEF w
<1>10. x \in Views
  BY <1>4, <1>8, NotesTyped, OutcomeTyped
<1> HIDE DEF x, nav0
<1>11. Outcome(Notes, view, toClient') = y
  <2> DEFINE a == toClient \o nav0
             b == d \o g
  <2> HIDE DEF d, g
  <2>1. a \in Seq(Packets) /\ b \in Seq(Packets)
    BY <1>3, <1>4, ConcatProperties
  <2>2. Outcome(Notes, view, a) = w
    BY <1>3, <1>4, NotesTyped, OutcomeOfConcat DEF w, v
  <2>3. Outcome(Notes, w, b) = y
    BY <1>4, <1>8, NotesTyped, OutcomeOfConcat DEF x
  <2> HIDE DEF a, b, y
  <2>4. Outcome(Notes, view, a \o b) = Outcome(Notes, Outcome(Notes, view, a), b)
    BY <1>3, <2>1, NotesTyped, OutcomeOfConcat
  <2> QED BY <1>5, <2>2, <2>3, <2>4 DEF a, b
<1>12. Differ(p) \subseteq Ids /\ Vanished(p) \subseteq Ids
       /\ IsFiniteSet(Differ(p)) /\ IsFiniteSet(Vanished(p))
  BY FS_Subset DEF Differ, Vanished, ClientViewAssumption
<1>13. /\ x.nav = w.nav
       /\ \A i \in Ids : x.contacts[i] = IF i \in Differ(p)
                                         THEN HandleContactPacket(DifferPacket(p)[i], w.contacts)[i]
                                         ELSE w.contacts[i]
  <2>1. DifferPacket(p) \in [Differ(p) -> ContactSights]
    BY <1>2, DifferPacketTyped
  <2>2. ListsEach(d, Differ(p), DifferPacket(p))
    BY <1>12, <2>1, InSomeOrderLists
  <2>3. \A i \in Differ(p) : DifferPacket(p)[i].id = i
    BY DEF DifferPacket, ContactPacket
  <2> HIDE DEF d
  <2>4. Learns(w, x, Differ(p), DifferPacket(p))
    BY <1>4, <1>8, <1>12, <2>1, <2>2, <2>3, OutcomeOfContacts DEF x
  <2> QED BY <2>4 DEF Learns
<1>14. /\ y.nav = x.nav
       /\ \A i \in Ids : y.contacts[i]
                          = IF i \in Vanished(p)
                            THEN HandleContactPacket(VanishedPacket(p, garbage)[i], x.contacts)[i]
                            ELSE x.contacts[i]
  <2>1. VanishedPacket(p, garbage) \in [Vanished(p) -> ContactSights]
    BY VanishedPacketTyped
  <2>2. ListsEach(g, Vanished(p), VanishedPacket(p, garbage))
    BY <1>12, <2>1, InSomeOrderLists
  <2>3. \A i \in Vanished(p) : VanishedPacket(p, garbage)[i].id = i
    BY DEF VanishedPacket, ContactPacket
  <2> HIDE DEF g
  <2>4. Learns(x, Outcome(Notes, x, g), Vanished(p), VanishedPacket(p, garbage))
    BY <1>4, <1>10, <1>12, <2>1, <2>2, <2>3, OutcomeOfContacts
  <2>5. y = Outcome(Notes, x, g)
    BY DEF g
  <2> QED BY <2>4, <2>5 DEF Learns
<1> HIDE DEF y
<1>15. ASSUME NEW i \in Ids
       PROVE  IF current'[i] = Nothing THEN y.contacts[i] # Nothing => i \in ghosts
              ELSE y.contacts[i] # Nothing /\ Tracks(y.contacts[i], current'[i], unsent'[i])
  <2>0. /\ current'[i] = Latest(p[i], current[i])
        /\ unsent'[i] = Unsent(p[i], current[i], unsent[i])
    BY <1>1
  <2>1. CASE i \in Differ(p)
    <3>1. i \notin Vanished(p) /\ p[i] # Nothing /\ Latest(p[i], current[i]) = p[i]
      BY <2>1 DEF Differ, Vanished, Latest
    <3> DEFINE got == HandleContactPacket(DifferPacket(p)[i], v.contacts)[i]
    <3>2. got # Nothing /\ Tracks(got, Latest(p[i], current[i]), Unsent(p[i], current[i], unsent[i]))
      BY <1>2, <1>6, <1>7, <2>1, DifferenceShown
    <3>3. y.contacts[i] = got
      BY <1>9, <1>13, <1>14, <2>1, <3>1
    <3> HIDE DEF got
    <3> QED BY <2>0, <3>1, <3>2, <3>3
  <2>2. CASE i \in Vanished(p)
    <3>1. i \notin Differ(p) /\ p[i] = Nothing
      BY <2>2 DEF Differ, Vanished
    <3>2. x.contacts[i] = v.contacts[i]
      BY <1>9, <1>13, <3>1
    <3>3. HandleContactPacket(VanishedPacket(p, garbage)[i], x.contacts)[i] = Nothing
      <4>1. DOMAIN x.contacts = Ids
        BY <1>10 DEF Views
      <4>2. VanishedPacket(p, garbage)[i].id = i /\ VanishedPacket(p, garbage)[i].removed = TRUE
        BY <2>2 DEF VanishedPacket, ContactPacket
      <4>3. x.contacts[i] # Nothing
        BY <1>7, <2>2, <3>2 DEF Agrees, Vanished
      <4> QED BY <4>1, <4>2, <4>3 DEF HandleContactPacket
    <3>4. y.contacts[i] = Nothing
      BY <1>14, <2>2, <3>3
    <3>5. Latest(p[i], current[i]) = Nothing
      BY <3>1 DEF Latest
    <3> QED BY <2>0, <3>4, <3>5
  <2>3. CASE i \notin Differ(p) /\ i \notin Vanished(p)
    <3>1. y.contacts[i] = v.contacts[i]
      BY <1>9, <1>13, <1>14, <2>3
    <3>2. CASE p[i] = Nothing
      <4>1. current[i] = Nothing
        BY <2>3, <3>2 DEF Vanished
      <4>2. Latest(p[i], current[i]) = Nothing
        BY <3>2 DEF Latest
      <4> QED BY <1>7, <2>0, <3>1, <4>1, <4>2 DEF Agrees
    <3>3. CASE p[i] # Nothing
      <4> DEFINE new == p[i]
                 c == current[i]
                 m == unsent[i]
      <4>1. /\ new \in [ContactFields -> Values] /\ new.place \in Int
            /\ new # Nothing /\ ByteStream(new, c) = <<>>
        BY <1>2, <2>3, <3>3 DEF Scans, Sights, Differ
      <4>2. c # Nothing
        <5>1. new # <<>>
          <6>1. DOMAIN new = ContactFields /\ ContactFields # {}
            BY <4>1 DEF ContactFields
          <6> HIDE DEF new
          <6> QED BY <6>1
        <5> QED BY <4>1, <5>1 DEF ByteStream
      <4>3. c \in [ContactFields -> Values] /\ c.place \in Int /\ m \in Nat
        BY <4>2 DEF ViewTypeOK, Sights
      <4>4. v.contacts[i] # Nothing /\ Tracks(v.contacts[i], c, m)
        BY <1>7, <4>2 DEF Agrees
      <4>5. DOMAIN v.contacts[i] = ContactFields /\ "place" \in ContactFields
        BY <1>6, <4>4 DEF Views, ContactFields
      <4> HIDE DEF new, c, m
      <4>6. Latest(new, c) = c /\ Unsent(new, c, m) = m
        BY <4>1, <4>2, <4>3, <4>4, <4>5, DifferenceTracks
      <4> QED BY <2>0, <3>1, <4>2, <4>4, <4>6 DEF new, c, m
    <3> QED BY <3>2, <3>3
  <2> QED BY <2>1, <2>2, <2>3
<1>16. Tracks(y.nav, last', unsentNav')
  BY <1>9, <1>13, <1>14
<1>17. Outcome(Notes, view, toClient)' = y
  BY <1>3, <1>11
<1> QED BY <1>1, <1>2, <1>15, <1>16, <1>17 DEF Agrees

(* Sending what is not about contacts or navigation, or nothing at all.    *)
LEMMA QuietSending ==
  ASSUME ViewTypeOK, UNCHANGED <<last, current, unsent, unsentNav, contacts, nav, ghosts>>,
         Agrees(Outcome(Notes, view, toClient)),
         \/ toClient' = toClient
         \/ \E p \in Packets : p.type \notin {"contact", "navstat"} /\ toClient' = Append(toClient, p)
  PROVE  Agrees(Outcome(Notes, view, toClient))'
<1>1. view' = view /\ view \in Views /\ toClient \in Seq(Packets)
  BY ViewTyped DEF view
<1>2. Outcome(Notes, view, toClient') = Outcome(Notes, view, toClient)
  <2>1. CASE toClient' = toClient
    BY <2>1
  <2>2. CASE \E p \in Packets : /\ p.type \notin {"contact", "navstat"}
                                /\ toClient' = Append(toClient, p)
    <3>1. PICK p \in Packets : /\ p.type \notin {"contact", "navstat"}
                               /\ toClient' = Append(toClient, p)
      BY <2>2
    <3> QED BY <1>1, <3>1, OutcomeOfQuiet
  <2> QED BY <2>1, <2>2
<1>3. Outcome(Notes, view, toClient)' = Outcome(Notes, view, toClient)
  BY <1>1, <1>2
<1> QED BY <1>3 DEF Agrees

(* A connection that is lost leaves what is shown, and it is noted so.     *)
LEMMA LoseAgrees ==
  ASSUME ViewTypeOK, ViewTypeOK', Lose, ghosts' = {i \in Ids : contacts[i] # Nothing},
         UNCHANGED contacts
  PROVE  Agrees(Outcome(Notes, view, toClient))'
<1>1. /\ toClient' = <<>> /\ last' = Nothing /\ current' = NoContacts
      /\ view' = view /\ view \in Views
  BY ViewTyped DEF Lose, view
<1>2. Outcome(Notes, view, <<>>) = view
  BY <1>1, NotesTyped, OutcomeOfNothing
<1>3. Outcome(Notes, view, toClient)' = view
  BY <1>1, <1>2
<1>4. view.contacts = contacts
  BY DEF view
<1> QED BY <1>1, <1>3, <1>4 DEF Agrees, NoContacts

(* The client reads its first packet: the outcome stays what it was. *)
LEMMA ReadAgrees ==
  ASSUME ViewTypeOK, ViewTypeOK', ReadPacket, Agrees(Outcome(Notes, view, toClient))
  PROVE  Agrees(Outcome(Notes, view, toClient))'
<1> DEFINE p == Head(toClient)
<1>1. CASE p.type = "denied"
  <2>1. Lose /\ ghosts' = {i \in Ids : contacts[i] # Nothing} /\ UNCHANGED contacts
    BY <1>1 DEF ReadPacket
  <2> QED BY <2>1, LoseAgrees
<1>2. CASE p.type # "denied"
  <2>1. view \in Views /\ toClient \in Seq(Packets) /\ toClient # <<>>
    BY ViewTyped DEF ReadPacket
  <2>2. p \in Packets
    BY <2>1, HeadTailProperties
  <2>3. /\ toClient' = Tail(toClient) /\ UNCHANGED <<last, current, unsent, unsentNav, ghosts>>
        /\ nav' = Noted(p, view).nav /\ contacts' = Noted(p, view).contacts
    BY <1>2 DEF ReadPacket, connection
  <2>4. view' = Notes[p][view]
    BY <2>1, <2>2, <2>3 DEF view, Notes, Noted
  <2>5. Outcome(Notes, view, toClient) = Outcome(Notes, Notes[p][view], Tail(toClient))
    BY <2>1, NotesTyped, OutcomeOfTail
  <2>6. Outcome(Notes, view, toClient)' = Outcome(Notes, view, toClient)
    <3>1. Outcome(Notes, view, toClient)' = Outcome(Notes, view', toClient')
      OBVIOUS
    <3> QED BY <2>3, <2>4, <2>5, <3>1
  <2> QED BY <2>3, <2>6 DEF Agrees
<1> QED BY <1>1, <1>2

(* Each step keeps the agreement. *)
LEMMA AgreesStep ==
  ASSUME ClientViewAssumption, ViewTypeOK, ViewTypeOK', CrewInv, [ViewNext]_viewVars,
         Agrees(Outcome(Notes, view, toClient))
  PROVE  Agrees(Outcome(Notes, view, toClient))'
<1>1. \A s \in Ships \cup {Nothing} :
        Manning(s) \in Packets /\ Manning(s).type \notin {"contact", "navstat"}
  BY PacketsKnown, ManningTypes DEF CrewTypes
<1>2. \A m \in {"welcome", "accepted", "denied"} :
        Message(m) \in Packets /\ Message(m).type \notin {"contact", "navstat"}
  BY PacketsKnown DEF Message
<1>3. ASSUME NEW s \in Ships \cup {Nothing}, ManConsole(s)
      PROVE  Agrees(Outcome(Notes, view, toClient))'
  <2>1. /\ UNCHANGED <<last, current, unsent, unsentNav, contacts, nav, ghosts>>
        /\ toClient' = toClient \/ toClient' = Append(toClient, Manning(s))
    BY <1>3 DEF ManConsole, status
  <2> QED BY <1>1, <2>1, QuietSending
<1>4. CASE DelConsole
  BY <1>4, QuietSending DEF DelConsole, connection, status
<1>5. CASE Login
  <2>1. /\ UNCHANGED <<last, current, unsent, unsentNav, contacts, nav, ghosts>>
        /\ toClient' = Append(toClient, Message("accepted"))
    BY <1>5 DEF Login, status
  <2> QED BY <1>2, <2>1, QuietSending
<1>6. CASE LoginDenied
  <2>1. /\ UNCHANGED <<last, current, unsent, unsentNav, contacts, nav, ghosts>>
        /\ toClient' = Append(toClient, Message("denied"))
    BY <1>6 DEF LoginDenied, status, connection
  <2> QED BY <1>2, <2>1, QuietSending
<1>7. CASE LoginFinds \/ LoginEnds \/ Request
  BY <1>7, QuietSending DEF LoginFinds, LoginEnds, Request, connection, status
<1>8. CASE Answer
  <2>1. /\ UNCHANGED <<last, current, unsent, unsentNav, contacts, nav, ghosts>>
        /\ toClient' = Append(toClient, Manning(worker.ship))
    BY <1>8 DEF Answer, status, connection
  <2>2. worker.ship \in Ships \cup {Nothing}
    BY DEF ViewTypeOK
  <2> QED BY <1>1, <2>1, <2>2, QuietSending
<1>9. CASE Disconnect
  BY <1>9, LoseAgrees DEF Disconnect
<1>10. CASE Connect
  <2>1. toClient = <<>>
    BY <1>10 DEF Connect, CrewInv, LettingIn, LetIn
  <2>2. toClient' = Append(toClient, Message("welcome"))
    BY <1>10, <2>1, Singles DEF Connect
  <2>3. UNCHANGED <<last, current, unsent, unsentNav, contacts, nav, ghosts>>
    BY <1>10 DEF Connect, connection
  <2> QED BY <1>2, <2>2, <2>3, QuietSending
<1>11. CASE UNCHANGED viewVars
  BY <1>11, QuietSending DEF viewVars, connection, status
<1> QED BY <1>3, <1>4, <1>5, <1>6, <1>7, <1>8, <1>9, <1>10, <1>11, ReadAgrees, UpdateAgrees
    DEF ViewNext, Serve

(* At first nothing is under way, and the client knows no contact. *)
LEMMA AgreesInit == ViewInit /\ ViewTypeOK => Agrees(Outcome(Notes, view, toClient))
<1> SUFFICES ASSUME ViewInit, ViewTypeOK PROVE Agrees(Outcome(Notes, view, toClient))
  OBVIOUS
<1>1. view \in Views /\ toClient = <<>> /\ view.contacts = NoContacts
  BY ViewTyped DEF ViewInit, view
<1>2. Outcome(Notes, view, <<>>) = view
  BY <1>1, NotesTyped, OutcomeOfNothing
<1> QED BY <1>1, <1>2 DEF Agrees, ViewInit, NoContacts

(* The types and the stages of the login hold together. *)
LEMMA CrewInvariant == ViewSpec => [](ViewTypeOK /\ CrewInv)
<1>1. ViewInit => CrewInv
  BY CrewInvInit
<1>2. ViewTypeOK /\ CrewInv /\ [ViewNext]_viewVars => CrewInv'
  BY ClientViewAssumption, CrewInvStep
<1> QED BY <1>1, <1>2, ViewTypeCorrect, PTL DEF ViewSpec

(* When the client has read what is under way, it shows the contacts and   *)
(* the navigation as the server has noted them, but for contacts of an     *)
(* earlier connection that it was never told to forget, and for changes of *)
(* a place within the tolerance: by no more of them than there were        *)
(* packets that noted such a change and left it out                        *)
(* (HSClientConnection::UpdateClient, HSNetworkPacket::ByteStream,         *)
(* HSClientWindow::HandlePacket).                                          *)
THEOREM TheViewAgrees == ViewSpec => []ViewAgrees
<1> DEFINE Shows == Agrees(Outcome(Notes, view, toClient))
<1>1. ViewInit /\ ViewTypeOK => Shows
  BY AgreesInit
<1>2. ViewTypeOK /\ ViewTypeOK' /\ CrewInv /\ Shows /\ [ViewNext]_viewVars => Shows'
  BY ClientViewAssumption, AgreesStep
<1>3. ViewTypeOK /\ Shows => ViewAgrees
  BY AgreesIsViewAgrees
<1> QED BY <1>1, <1>2, <1>3, CrewInvariant, PTL DEF ViewSpec
=============================================================================
