-------------------------- MODULE JavaBindingProofs --------------------------
(***************************************************************************)
(* Proofs about JavaBinding, for every set of threads, objects, addresses  *)
(* and files.                                                              *)
(*                                                                         *)
(* Two invariants. Whatever the host does, a file belongs to an object or  *)
(* to the call that makes one (Placed). As long as the host misuses        *)
(* nothing, an object that is not closed has its own file, and so has a    *)
(* call that is about to make an object or to fill a list (Kept).          *)
(***************************************************************************)
EXTENDS JavaBinding, TLAPS

CallType ==
    [at     : {"idle", "opening", "opened", "filling", "closing"},
     object : Objects \cup {None},
     file   : Addresses \cup {None},
     cell   : Addresses \cup {NULL},
     kind   : Lists \cup {None},
     count  : Nat]

\* A thread that is making an object.
Making(t) == call[t].at \in {"opening", "opened"}

\* A call in progress has an object and an address; one that makes an object is
\* the only one to make it, and an open in progress has its address.
CallOK(t) ==
    /\ call[t].at = "idle" => call[t] = Idle
    /\ call[t].at # "idle" =>
          call[t].object \in Objects /\ call[t].file \in Addresses
    /\ Making(t) => pointer[call[t].object] = None
    /\ call[t].at = "opening" =>
          /\ state[call[t].file] = "opening"
          /\ owner[call[t].file] = call[t].object
    /\ call[t].at = "opened" => call[t].cell = call[t].file

CallsOK ==
    /\ call \in [Threads -> CallType]
    /\ \A t \in Threads : CallOK(t)
    /\ \A t, u \in Threads :
          t # u /\ Making(t) /\ Making(u) => call[t].object # call[u].object

\* A file that exists is at the pointer of its object, or in the call that is
\* to make that object.
Placed ==
    \A a \in Addresses :
       state[a] # "empty" =>
          \/ owner[a] \in Objects /\ pointer[owner[a]] = a
          \/ \E t \in Threads : /\ Making(t)
                                /\ call[t].object = owner[a]
                                /\ call[t].file = a

\* The file of o is at a, and nothing else was done to it.
Owns(o, a) ==
    /\ IsOpen(a)
    /\ owner[a] = o
    /\ bound[a] \in {o, None}

\* What a host that misuses nothing finds.
Kept ==
    ~misused =>
       /\ \A o \in Objects \ ended : pointer[o] # None => Owns(o, pointer[o])
       /\ \A t \in Threads :
             /\ call[t].at = "opened" => Owns(call[t].object, call[t].file)
             /\ call[t].at = "filling" =>
                   /\ call[t].object \notin ended
                   /\ pointer[call[t].object] = call[t].file
                   /\ call[t].kind \in Lists
                   /\ call[t].count = Len(contents[call[t].file][call[t].kind])

BindingInv == TypeOK /\ CallsOK /\ Placed /\ Kept /\ BindingHarmNeedsMisuse

\* Before the first call there is nothing.
LEMMA BindingInit == Init => BindingInv
<1> SUFFICES ASSUME Init PROVE BindingInv OBVIOUS
<1> USE DEF Init, Library!Init
<1>1. TypeOK
  BY DEF TypeOK, Harms, Library!States, Library!Answers, Idle
<1>2. Idle \in CallType
  BY DEF Idle, CallType, Lists
<1>3. CallsOK
  BY <1>2 DEF CallsOK, CallOK, Making, Idle
<1>4. Placed
  BY DEF Placed
<1>5. Kept
  BY DEF Kept, Idle
<1>6. BindingHarmNeedsMisuse
  BY DEF BindingHarmNeedsMisuse
<1> QED BY <1>1, <1>3, <1>4, <1>5, <1>6 DEF BindingInv

\* What an action writes into the call of its thread, and no other.
LEMMA CallRecord ==
    ASSUME call \in [Threads -> CallType], NEW t \in Threads,
           NEW c \in CallType, call' = [call EXCEPT ![t] = c]
    PROVE  /\ call' \in [Threads -> CallType]
           /\ call'[t] = c
           /\ \A u \in Threads \ {t} : call'[u] = call[u]
OBVIOUS

LEMMA IdleType == Idle \in CallType
BY DEF Idle, CallType

\* peloader_open is given an address that no file has.
LEMMA OpenKeeps ==
    ASSUME BindingInv, NEW t \in Threads, NEW o \in Objects,
           NEW a \in Addresses, Open(t, o, a)
    PROVE  BindingInv'
<1> USE DEF BindingInv
<1> DEFINE c == [Idle EXCEPT !.at = "opening", !.object = o, !.file = a]
<1>1. /\ alive /\ alive' /\ harm' = harm
      /\ state[a] = "empty"
      /\ state' = [state EXCEPT ![a] = "opening"]
      /\ answer' = [answer EXCEPT ![a] = "none"]
      /\ owner' = [owner EXCEPT ![a] = o]
      /\ UNCHANGED <<contents, bound, pointer, ended, misused>>
      /\ pointer[o] = None
      /\ call[t] = Idle
      /\ \A u \in Threads : call[u].object # o
  BY DEF Open, Library!Call, Library!Move, hostVars
<1>2. c \in CallType /\ call' = [call EXCEPT ![t] = c]
  BY <1>1 DEF Open, Idle, CallType, CallsOK
<1>3. /\ call' \in [Threads -> CallType]
      /\ call'[t] = c
      /\ \A u \in Threads \ {t} : call'[u] = call[u]
  BY <1>2, CallRecord DEF CallsOK
<1>4. /\ c.at = "opening" /\ c.object = o /\ c.file = a
      /\ ~Making(t)
      /\ \A u \in Threads \ {t} : Making(u)' <=> Making(u)
  BY <1>1, <1>3 DEF Idle, Making
<1> HIDE DEF c
<1>5. TypeOK'
  BY <1>1, <1>3, <1>4 DEF TypeOK, Library!States, Library!Answers
<1>6. CallsOK'
  BY <1>1, <1>3, <1>4 DEF CallsOK, CallOK, TypeOK, Making
<1>7. Placed'
  BY <1>1, <1>3, <1>4 DEF Placed, TypeOK, Making
<1>8. Kept'
  BY <1>1, <1>3, <1>4 DEF Kept, Owns, IsOpen, TypeOK
<1>9. BindingHarmNeedsMisuse'
  BY <1>1 DEF BindingHarmNeedsMisuse
<1> QED BY <1>5, <1>6, <1>7, <1>8, <1>9

\* The library stores the address in the cell of this call, and the file has not
\* been bound.
LEMMA OpenSucceedsKeeps ==
    ASSUME BindingInv, NEW t \in Threads, OpenSucceeds(t)
    PROVE  BindingInv'
<1> USE DEF BindingInv
<1>1. PICK a \in Addresses : a = call[t].file /\ call[t].at = "opening"
  BY DEF OpenSucceeds, CallsOK, CallOK
<1> DEFINE c == [call[t] EXCEPT !.cell = a, !.at = "opened"]
<1>2. PICK f \in Files :
         /\ alive /\ alive' /\ harm' = harm
         /\ state[a] = "opening"
         /\ state' = [state EXCEPT ![a] = "open"]
         /\ answer' = [answer EXCEPT ![a] = "zero"]
         /\ contents' = [contents EXCEPT ![a] = f]
         /\ bound' = [bound EXCEPT ![a] = None]
         /\ UNCHANGED <<owner, pointer, ended, misused>>
  BY <1>1 DEF OpenSucceeds, Library!Succeed, Library!Move, hostVars
<1>3. c \in CallType /\ call' = [call EXCEPT ![t] = c]
  BY <1>1 DEF OpenSucceeds, Stored, CallType, CallsOK
<1>4. /\ call' \in [Threads -> CallType]
      /\ call'[t] = c
      /\ \A u \in Threads \ {t} : call'[u] = call[u]
  BY <1>3, CallRecord DEF CallsOK
<1>5. /\ c.at = "opened" /\ c.cell = a /\ c.file = a
      /\ c.object = call[t].object
  BY <1>1 DEF CallsOK, CallType
<1> HIDE DEF c
<1>6. \A u \in Threads : Making(u)' <=> Making(u)
  BY <1>1, <1>4, <1>5 DEF Making
<1>7. CallOK(t) /\ c.object \in Objects /\ owner[a] = c.object
      /\ pointer[c.object] = None
  BY <1>1, <1>5 DEF CallsOK, CallOK, Making
\* No other open has this address: its object would be the owner too.
<1>8. \A u \in Threads \ {t} : call[u].at = "opening" => call[u].file # a
  BY <1>1, <1>5, <1>7 DEF CallsOK, CallOK, Making
<1>9. TypeOK'
  BY <1>2, <1>4, <1>5 DEF TypeOK, Library!States, Library!Answers
<1>10. CallsOK'
  <2>1. \A u \in Threads : CallOK(u)'
    BY <1>1, <1>2, <1>4, <1>5, <1>6, <1>7, <1>8 DEF CallsOK, CallOK, TypeOK
  <2>2. \A u, v \in Threads : u # v /\ Making(u) /\ Making(v) =>
                                 call'[u].object # call'[v].object
    BY <1>4, <1>5 DEF CallsOK
  <2> QED BY <1>4, <1>6, <2>1, <2>2 DEF CallsOK
<1>11. Placed'
  BY <1>1, <1>2, <1>4, <1>5, <1>6 DEF Placed, TypeOK
<1>12. Kept'
  <2> SUFFICES ASSUME ~misused
               PROVE  /\ \A o \in Objects \ ended :
                            pointer[o] # None => Owns(o, pointer[o])'
                      /\ \A u \in Threads :
                            /\ call'[u].at = "opened" =>
                                  Owns(call[u].object, call[u].file)'
                            /\ call'[u].at = "filling" =>
                                  /\ call'[u].object \notin ended
                                  /\ pointer[call'[u].object] = call'[u].file
                                  /\ call'[u].kind \in Lists
                                  /\ call'[u].count =
                                        Len(contents'[call'[u].file][call'[u].kind])
    BY <1>2 DEF Kept
  <2>1. Owns(call[t].object, call[t].file)'
    BY <1>2, <1>4, <1>5, <1>7 DEF Owns, IsOpen, TypeOK
  <2>2. \A b \in Addresses \ {a}, o \in Objects : Owns(o, b) => Owns(o, b)'
    BY <1>2 DEF Owns, IsOpen, TypeOK
  <2>3. \A o \in Objects \ ended : pointer[o] # a
    BY <1>2, BindingAssumption DEF Kept, Owns, IsOpen, TypeOK
  <2>4. \A o \in Objects \ ended : pointer[o] # None => Owns(o, pointer[o])'
    BY <1>2, <2>2, <2>3 DEF Kept, TypeOK
  <2>5. \A u \in Threads \ {t} : call[u].at = "opened" =>
                                    Owns(call[u].object, call[u].file)'
    BY <1>2, <1>4, <2>2 DEF Kept, Owns, IsOpen, CallsOK, CallOK
  <2>6. \A u \in Threads : call'[u].at = "filling" =>
           /\ u # t
           /\ call[u].object \notin ended
           /\ call[u].object \in Objects
           /\ pointer[call[u].object] = call[u].file
           /\ call[u].file \in Addresses \ {a}
           /\ call[u].kind \in Lists
           /\ call[u].count = Len(contents[call[u].file][call[u].kind])
    BY <1>4, <1>5, <2>3 DEF Kept, CallsOK, CallOK
  <2>7. \A b \in Addresses \ {a} : contents'[b] = contents[b]
    BY <1>2 DEF TypeOK
  <2>8. \A u \in Threads : call'[u].at = "opened" =>
                              Owns(call[u].object, call[u].file)'
    BY <1>4, <2>1, <2>5
  <2> QED BY <1>2, <1>4, <2>4, <2>6, <2>7, <2>8
<1>13. BindingHarmNeedsMisuse'
  BY <1>2 DEF BindingHarmNeedsMisuse
<1> QED BY <1>9, <1>10, <1>11, <1>12, <1>13

\* An open that fails gives its address back; nobody had it.
LEMMA OpenFailsKeeps ==
    ASSUME BindingInv, NEW t \in Threads, OpenFails(t)
    PROVE  BindingInv'
<1> USE DEF BindingInv
<1>1. PICK a \in Addresses : a = call[t].file /\ call[t].at = "opening"
  BY DEF OpenFails, CallsOK, CallOK
<1>2. /\ alive /\ alive' /\ harm' = harm
      /\ state[a] = "opening"
      /\ state' = [state EXCEPT ![a] = "empty"]
      /\ answer' = [answer EXCEPT ![a] = "negative"]
      /\ owner' = [owner EXCEPT ![a] = None]
      /\ UNCHANGED <<contents, bound, pointer, ended, misused>>
  BY <1>1 DEF OpenFails, Library!Fail, Library!Move, hostVars
<1>3. /\ call' \in [Threads -> CallType]
      /\ call'[t] = Idle
      /\ \A u \in Threads \ {t} : call'[u] = call[u]
  BY IdleType, CallRecord DEF OpenFails, Throw, Return, CallsOK
<1>4. ~Making(t)' /\ \A u \in Threads \ {t} : Making(u)' <=> Making(u)
  BY <1>3 DEF Making, Idle
<1>5. \A u \in Threads \ {t} : call[u].at = "opening" => call[u].file # a
  BY <1>1 DEF CallsOK, CallOK, Making
<1>6. TypeOK'
  BY <1>2, <1>3 DEF TypeOK, Library!States, Library!Answers, Idle
<1>7. CallsOK'
  BY <1>2, <1>3, <1>4, <1>5 DEF CallsOK, CallOK, TypeOK, Idle
<1>8. Placed'
  BY <1>1, <1>2, <1>3, <1>4 DEF Placed, TypeOK
<1>9. Kept'
  BY <1>2, <1>3 DEF Kept, Owns, IsOpen, TypeOK, Idle
<1>10. BindingHarmNeedsMisuse'
  BY <1>2 DEF BindingHarmNeedsMisuse
<1> QED BY <1>6, <1>7, <1>8, <1>9, <1>10

\* The constructor stores the address of the file this call opened.
LEMMA WrapKeeps ==
    ASSUME BindingInv, NEW t \in Threads, Wrap(t)
    PROVE  BindingInv'
<1> USE DEF BindingInv
<1>1. PICK o \in Objects, a \in Addresses :
         /\ o = call[t].object
         /\ a = call[t].file
         /\ a = call[t].cell
         /\ call[t].at = "opened"
         /\ pointer[o] = None
  BY DEF Wrap, CallsOK, CallOK, Making
<1>2. /\ UNCHANGED <<state, answer, alive, harm, owner, contents, bound,
                     ended, misused>>
      /\ alive
      /\ pointer' = [pointer EXCEPT ![o] = a]
  BY <1>1 DEF Wrap, libraryVars, fileVars, hostVars
<1>3. /\ call' \in [Threads -> CallType]
      /\ call'[t] = Idle
      /\ \A u \in Threads \ {t} : call'[u] = call[u]
  BY IdleType, CallRecord DEF Wrap, Return, CallsOK
<1>4. ~Making(t)' /\ \A u \in Threads \ {t} : Making(u)' <=> Making(u)
  BY <1>3 DEF Making, Idle
<1>5. \A u \in Threads \ {t} : Making(u) => call[u].object # o
  BY <1>1 DEF CallsOK, Making
<1>6. TypeOK'
  BY <1>2, <1>3 DEF TypeOK, Idle
<1>7. CallsOK'
  BY <1>2, <1>3, <1>4, <1>5 DEF CallsOK, CallOK, TypeOK, Idle
<1>8. Placed'
  <2> SUFFICES ASSUME NEW b \in Addresses, state[b] # "empty"
               PROVE  \/ owner[b] \in Objects /\ pointer'[owner[b]] = b
                      \/ \E u \in Threads : /\ Making(u)'
                                            /\ call'[u].object = owner[b]
                                            /\ call'[u].file = b
    BY <1>2 DEF Placed
  <2>1. CASE owner[b] \in Objects /\ pointer[owner[b]] = b
    BY <1>1, <1>2, <2>1, BindingAssumption DEF TypeOK
  <2>2. CASE \E u \in Threads : /\ Making(u)
                                /\ call[u].object = owner[b]
                                /\ call[u].file = b
    BY <1>1, <1>2, <1>3, <1>4, <2>2 DEF TypeOK
  <2> QED BY <2>1, <2>2 DEF Placed
<1>9. Kept'
  <2>1. ~misused => Owns(o, a)
    BY <1>1 DEF Kept
  <2>2. \A p \in Objects \ {o} : pointer'[p] = pointer[p]
    BY <1>2 DEF TypeOK
  <2>3. pointer'[o] = a
    BY <1>2 DEF TypeOK
  <2>4. \A p, b : Owns(p, b)' <=> Owns(p, b)
    BY <1>2 DEF Owns, IsOpen
  <2>5. ASSUME ~misused, NEW p \in Objects \ ended, pointer'[p] # None
        PROVE  Owns(p, pointer'[p])
    BY <2>1, <2>2, <2>3, <2>5 DEF Kept
  <2>6. ASSUME ~misused, NEW u \in Threads, call'[u].at = "filling"
        PROVE  /\ u # t
               /\ call[u].object \in Objects \ {o}
    BY <1>1, <1>3, <2>6, BindingAssumption DEF Kept, CallsOK, CallOK, Idle
  <2>7. ASSUME NEW u \in Threads, call'[u].at = "opened"
        PROVE  u # t
    BY <1>3, <2>7 DEF Idle
  <2> QED BY <1>2, <1>3, <2>2, <2>4, <2>5, <2>6, <2>7 DEF Kept
<1>10. BindingHarmNeedsMisuse'
  BY <1>2 DEF BindingHarmNeedsMisuse
<1> QED BY <1>6, <1>7, <1>8, <1>9, <1>10

\* A method of an object that was not misused finds its file.
LEMMA EnterOwns ==
    ASSUME BindingInv, NEW t \in Threads, NEW o \in Objects, Enter(t, o),
           ~misused'
    PROVE  /\ ~misused
           /\ o \notin ended
           /\ pointer[o] \in Addresses
           /\ Owns(o, pointer[o])
BY DEF Enter, BindingInv, Kept, TypeOK

\* What a file lists is a sequence.
LEMMA ListsAreSequences ==
    ASSUME TypeOK, NEW a \in Addresses, NEW k \in Lists
    PROVE  LET entries == contents[a][k] IN
           /\ Len(entries) \in Nat
           /\ entries = [i \in 1..Len(entries) |-> entries[i]]
<1>1. PICK f \in Files \cup {[j \in Lists |-> <<>>]} : contents[a] = f
  BY DEF TypeOK
<1>2. CASE f \in Files
  <2>1. f[k] \in Seq({f[k][i] : i \in DOMAIN f[k]})
    BY <1>2, BindingAssumption
  <2> QED BY <1>1, <2>1
<1>3. CASE f = [j \in Lists |-> <<>>]
  <2>1. f[k] = <<>>
    BY <1>3
  <2> QED BY <1>1, <2>1
<1> QED BY <1>2, <1>3

\* A step that changes nothing of the binding but its history.
LEMMA NothingKeeps ==
    ASSUME BindingInv, misused' \in BOOLEAN, misused => misused',
           UNCHANGED <<state, answer, alive, harm, owner, contents, bound,
                       pointer, call, ended>>
    PROVE  BindingInv'
<1> USE DEF BindingInv
<1>1. TypeOK'
  BY DEF TypeOK
<1>2. CallsOK'
  BY DEF CallsOK, CallOK, Making
<1>3. Placed'
  BY DEF Placed, Making
<1>4. Kept'
  BY DEF Kept, Owns, IsOpen
<1>5. BindingHarmNeedsMisuse'
  BY DEF BindingHarmNeedsMisuse, TypeOK
<1> QED BY <1>1, <1>2, <1>3, <1>4, <1>5

\* Harm, whatever came before it: what the binding hands over does harm only
\* after misuse.
LEMMA HarmKeeps ==
    ASSUME BindingInv, NEW how \in Harms \ {"none"}, Harm(how),
           UNCHANGED pointer, misused' \in BOOLEAN, misused => misused',
           how \in {"dangling", "overrun"} => misused',
           ended' \subseteq Objects, ended \subseteq ended',
           misused' \/ ended' = ended
    PROVE  BindingInv'
<1> USE DEF BindingInv
<1>1. /\ UNCHANGED <<state, answer, owner, contents, bound, pointer, call>>
      /\ alive' = FALSE
      /\ harm' = how
  BY DEF Harm, Library!Stop, fileVars
<1>2. TypeOK'
  BY <1>1 DEF TypeOK
<1>3. CallsOK'
  BY <1>1 DEF CallsOK, CallOK, Making
<1>4. Placed'
  BY <1>1 DEF Placed, Making
<1>5. Kept'
  BY <1>1 DEF Kept, Owns, IsOpen
<1>6. BindingHarmNeedsMisuse'
  BY <1>1 DEF BindingHarmNeedsMisuse
<1> QED BY <1>2, <1>3, <1>4, <1>5, <1>6

\* A method that goes wrong: on an address without a file, only after misuse.
LEMMA MethodHarmKeeps ==
    ASSUME BindingInv, NEW t \in Threads, NEW o \in Objects, Enter(t, o),
           GoesWrong(pointer[o])
    PROVE  BindingInv'
<1>1. /\ misused' \in BOOLEAN
      /\ misused => misused'
      /\ UNCHANGED <<pointer, ended>>
      /\ ended \subseteq Objects
  BY DEF Enter, BindingInv, TypeOK
<1>2. ~IsOpen(pointer[o]) => misused'
  BY EnterOwns DEF Owns
<1>3. CASE ~IsOpen(pointer[o]) /\ Harm("dangling")
  BY <1>1, <1>2, <1>3, HarmKeeps DEF Harms
<1>4. CASE Harm("library")
  BY <1>1, <1>4, HarmKeeps DEF Harms
<1> QED BY <1>3, <1>4 DEF GoesWrong

\* A bind reaches the file of the object it was called on.
LEMMA BindKeeps ==
    ASSUME BindingInv, NEW t \in Threads, NEW o \in Objects, BindImport(t, o)
    PROVE  BindingInv'
<1>1. /\ misused' = (misused \/ o \in ended)
      /\ misused' \in BOOLEAN
      /\ misused => misused'
      /\ UNCHANGED <<pointer, ended>>
  BY DEF BindImport, Enter, BindingInv, TypeOK
<1>2. CASE GoesWrong(pointer[o])
  BY <1>2, MethodHarmKeeps DEF BindImport
<1>3. CASE IsOpen(pointer[o]) /\ ~GoesWrong(pointer[o])
  <2>1. PICK a \in Addresses : a = pointer[o] /\ state[a] = "open"
    BY <1>3 DEF IsOpen
  <2>2. /\ bound' \in {bound, [bound EXCEPT ![a] = o]}
        /\ UNCHANGED <<state, answer, alive, harm, owner, contents, call>>
    BY <1>3, <2>1 DEF BindImport, libraryVars
  <2>3. TypeOK'
    BY <1>1, <2>2 DEF BindingInv, TypeOK
  <2>4. CallsOK' /\ Placed'
    BY <1>1, <2>2 DEF BindingInv, CallsOK, CallOK, Placed, Making
  <2>5. Kept'
    <3> SUFFICES ASSUME ~misused' PROVE Kept'
      BY DEF Kept
    <3>1. ~misused /\ o \notin ended /\ Owns(o, a)
      BY <2>1, EnterOwns DEF BindImport
    <3>2. \A b \in Addresses : \A p : Owns(p, b) /\ (b = a => p = o) => Owns(p, b)'
      BY <2>2, <3>1 DEF Owns, IsOpen, BindingInv, TypeOK
    <3>3. \A b \in Addresses : \A p : Owns(p, b) => Owns(p, b)'
      BY <3>1, <3>2 DEF Owns
    <3>4. \A p \in Objects \ ended : pointer[p] # None => pointer[p] \in Addresses
      BY DEF BindingInv, TypeOK
    <3>5. \A u \in Threads : call[u].at = "opened" => call[u].file \in Addresses
      BY DEF BindingInv, CallsOK, CallOK
    <3> QED BY <1>1, <2>2, <3>1, <3>3, <3>4, <3>5 DEF BindingInv, Kept
  <2>6. BindingHarmNeedsMisuse'
    BY <1>1, <2>2 DEF BindingInv, BindingHarmNeedsMisuse
  <2> QED BY <2>3, <2>4, <2>5, <2>6 DEF BindingInv
<1>4. GoesWrong(pointer[o]) \/ IsOpen(pointer[o])
  BY DEF BindImport
<1> QED BY <1>2, <1>3, <1>4

\* A lookup changes nothing of the library.
LEMMA ExportKeeps ==
    ASSUME BindingInv, NEW t \in Threads, NEW o \in Objects, Export(t, o)
    PROVE  BindingInv'
<1>1. CASE GoesWrong(pointer[o])
  BY <1>1, MethodHarmKeeps DEF Export
<1>2. CASE UNCHANGED <<libraryVars, fileVars, call, list>>
  <2>1. misused' = (misused \/ o \in ended)
    BY DEF Export, Enter
  <2>2. misused' \in BOOLEAN /\ (misused => misused')
    BY <2>1 DEF BindingInv, TypeOK
  <2>3. UNCHANGED <<state, answer, alive, harm, owner, contents, bound, pointer,
                    call, ended>>
    BY <1>2 DEF Export, Enter, libraryVars, fileVars
  <2> QED BY <2>2, <2>3, NothingKeeps
<1> QED BY <1>1, <1>2 DEF Export

\* The list a call is to fill is the one that was counted.
LEMMA CountKeeps ==
    ASSUME BindingInv, NEW t \in Threads, NEW o \in Objects, NEW kind \in Lists,
           Count(t, o, kind)
    PROVE  BindingInv'
<1>1. /\ misused' = (misused \/ o \in ended)
      /\ misused' \in BOOLEAN
      /\ misused => misused'
      /\ call[t] = Idle
      /\ UNCHANGED <<pointer, ended>>
  BY DEF Count, Enter, BindingInv, TypeOK
<1>2. CASE GoesWrong(pointer[o])
  BY <1>2, MethodHarmKeeps DEF Count
<1>3. CASE ~GoesWrong(pointer[o]) /\ call' = call
  <2>1. UNCHANGED <<state, answer, alive, harm, owner, contents, bound>>
    BY <1>3 DEF Count, libraryVars, fileVars
  <2> QED BY <1>1, <1>3, <2>1, NothingKeeps
<1>4. CASE IsOpen(pointer[o]) /\ ~GoesWrong(pointer[o]) /\ call' # call
  <2>1. PICK a \in Addresses : a = pointer[o] /\ state[a] = "open"
    BY <1>4 DEF IsOpen
  <2> DEFINE n == Len(contents[a][kind])
             c == [Idle EXCEPT !.at = "filling", !.object = o, !.file = a,
                               !.kind = kind, !.count = n]
  <2>2. n \in Nat
    BY ListsAreSequences DEF BindingInv
  <2>3. /\ call' = [call EXCEPT ![t] = c]
        /\ UNCHANGED <<state, answer, alive, harm, owner, contents, bound>>
    BY <1>4, <2>1 DEF Count, Allocated, libraryVars, fileVars
  <2>4. c \in CallType
    BY <2>2 DEF Idle, CallType
  <2>5. /\ call' \in [Threads -> CallType]
        /\ call'[t] = c
        /\ \A u \in Threads \ {t} : call'[u] = call[u]
    BY <2>3, <2>4, CallRecord DEF BindingInv, CallsOK
  <2>6. /\ c.at = "filling" /\ c.object = o /\ c.file = a /\ c.kind = kind
        /\ c.count = n
    BY DEF Idle
  <2> HIDE DEF c
  <2>7. \A u \in Threads : Making(u)' <=> Making(u)
    BY <1>1, <2>5, <2>6 DEF Making, Idle
  <2>8. TypeOK'
    BY <1>1, <2>3, <2>5, <2>6 DEF BindingInv, TypeOK
  <2>9. CallsOK'
    <3>1. CallOK(t)'
      BY <2>5, <2>6 DEF CallOK, Making
    <3>2. \A u \in Threads \ {t} : CallOK(u)'
      BY <1>1, <2>3, <2>5, <2>7 DEF BindingInv, CallsOK, CallOK
    <3>3. \A u \in Threads : Making(u)' => call'[u] = call[u]
      BY <2>5, <2>6 DEF Making
    <3> QED BY <2>5, <2>7, <3>1, <3>2, <3>3 DEF BindingInv, CallsOK
  <2>10. Placed'
    <3>1. \A u \in Threads : Making(u) => call'[u] = call[u]
      BY <1>1, <2>5 DEF Making, Idle
    <3> QED BY <1>1, <2>3, <2>7, <3>1 DEF BindingInv, Placed
  <2>11. Kept'
    <3> SUFFICES ASSUME ~misused' PROVE Kept'
      BY DEF Kept
    <3>1. ~misused /\ o \notin ended /\ Owns(o, a)
      BY <2>1, EnterOwns DEF Count
    <3>2. \A b, p : Owns(p, b)' <=> Owns(p, b)
      BY <2>3 DEF Owns, IsOpen
    <3>3. contents' = contents
      BY <2>3
    <3> QED BY <1>1, <2>1, <2>5, <2>6, <3>1, <3>2, <3>3 DEF BindingInv, Kept
  <2>12. BindingHarmNeedsMisuse'
    BY <1>1, <2>3 DEF BindingInv, BindingHarmNeedsMisuse
  <2> QED BY <2>8, <2>9, <2>10, <2>11, <2>12 DEF BindingInv
<1>5. GoesWrong(pointer[o]) \/ IsOpen(pointer[o])
  BY DEF Count
<1> QED BY <1>2, <1>3, <1>4, <1>5

\* A call that ends with its object made, and leaves the library as it is.
LEMMA EndKeeps ==
    ASSUME BindingInv, NEW t \in Threads, ~Making(t), call' = [call EXCEPT ![t] = Idle],
           UNCHANGED <<state, answer, alive, harm, owner, contents, bound,
                       pointer, ended, misused>>
    PROVE  BindingInv'
<1>1. /\ call' \in [Threads -> CallType]
      /\ call'[t] = Idle
      /\ \A u \in Threads \ {t} : call'[u] = call[u]
  BY IdleType, CallRecord DEF BindingInv, CallsOK
<1>2. \A u \in Threads : /\ Making(u)' <=> Making(u)
                         /\ Making(u) => call'[u] = call[u]
  BY <1>1 DEF Making, Idle
<1>3. TypeOK'
  BY <1>1 DEF BindingInv, TypeOK, Idle
<1>4. CallsOK'
  <2>1. CallOK(t)'
    BY <1>1 DEF CallOK, Making, Idle
  <2>2. \A u \in Threads \ {t} : CallOK(u)'
    BY <1>1, <1>2 DEF BindingInv, CallsOK, CallOK
  <2> QED BY <1>1, <1>2, <2>1, <2>2 DEF BindingInv, CallsOK
<1>5. Placed'
  BY <1>2 DEF BindingInv, Placed
<1>6. Kept'
  <2>1. \A b, p : Owns(p, b)' <=> Owns(p, b)
    BY DEF Owns, IsOpen
  <2>2. Idle.at = "idle"
    BY DEF Idle
  <2> QED BY <1>1, <2>1, <2>2 DEF BindingInv, Kept
<1>7. BindingHarmNeedsMisuse'
  BY DEF BindingInv, BindingHarmNeedsMisuse
<1> QED BY <1>3, <1>4, <1>5, <1>6, <1>7 DEF BindingInv

\* The second call of a list fills what the first one counted: it finds no file,
\* or more than was counted, only after misuse.
LEMMA FillKeeps ==
    ASSUME BindingInv, NEW t \in Threads, Fill(t)
    PROVE  BindingInv'
<1> DEFINE a == call[t].file
           entries == contents[a][call[t].kind]
<1>1. /\ call[t].at = "filling"
      /\ UNCHANGED <<pointer, ended, misused>>
      /\ misused \in BOOLEAN
      /\ ended \subseteq Objects
  BY DEF Fill, hostVars, BindingInv, TypeOK
<1>2. CASE alive'
  <2>1. /\ call' = [call EXCEPT ![t] = Idle]
        /\ UNCHANGED <<state, answer, alive, harm, owner, contents, bound>>
    BY <1>2 DEF Fill, GoesWrong, Harm, Library!Stop, Return, libraryVars, fileVars
  <2> QED BY <1>1, <2>1, EndKeeps DEF Making
<1>3. CASE ~alive'
  <2>1. PICK how \in {"dangling", "overrun", "nameless", "library"} :
           /\ Harm(how)
           /\ how = "dangling" => ~IsOpen(a)
           /\ how = "overrun" => ~(Len(entries) <= call[t].count)
    BY <1>3 DEF Fill, GoesWrong, libraryVars
  <2>2. ASSUME ~misused
        PROVE  IsOpen(a) /\ Len(entries) <= call[t].count
    <3>1. /\ a \in Addresses
          /\ call[t].kind \in Lists
          /\ IsOpen(a)
          /\ call[t].count = Len(entries)
      BY <1>1, <2>2, BindingAssumption
         DEF BindingInv, Kept, CallsOK, CallOK, Owns
    <3>2. Len(entries) \in Nat
      BY <3>1, ListsAreSequences DEF BindingInv
    <3> QED BY <3>1, <3>2
  <2>3. how \in {"dangling", "overrun"} => misused'
    BY <1>1, <2>1, <2>2
  <2>4. how \in Harms \ {"none"}
    BY DEF Harms
  <2> QED BY <1>1, <2>1, <2>3, <2>4, HarmKeeps
<1> QED BY <1>2, <1>3

\* A call that never returns leaves what the host knows as it was.
LEMMA CallStopsKeeps ==
    ASSUME BindingInv, NEW t \in Threads, CallStops(t)
    PROVE  BindingInv'
<1>1. UNCHANGED <<pointer, ended, misused>> /\ Harm("library")
  BY DEF CallStops, hostVars
<1>2. misused \in BOOLEAN /\ ended \subseteq Objects
  BY DEF BindingInv, TypeOK
<1> QED BY <1>1, <1>2, HarmKeeps DEF Harms

\* A close takes the file from its object, and from no other unless an object
\* is misused.
LEMMA CloseKeeps ==
    ASSUME BindingInv, NEW t \in Threads, NEW o \in Objects, Close(t, o)
    PROVE  BindingInv'
<1> DEFINE a == pointer[o]
           misuse == \/ misused
                     \/ o \in ended
                     \/ \E u \in Threads : call[u].object = o
<1>1. /\ misused' = misuse
      /\ misused' \in BOOLEAN
      /\ misused => misused'
      /\ ended' = ended \cup {o}
      /\ call[t] = Idle
      /\ a # None
      /\ UNCHANGED pointer
  BY DEF Close, BindingInv, TypeOK
<1>2. ASSUME ~misused'
      PROVE  /\ ~misused
             /\ Owns(o, a)
             /\ \A u \in Threads : call[u].object # o
  BY <1>1, <1>2 DEF BindingInv, Kept
<1>3. CASE ~IsOpen(a)
  <2>1. Harm("dangling")
    BY <1>3, <1>1 DEF Close, Library!Close, Library!Move, IsOpen, BindingInv, TypeOK
  <2>2. misused'
    BY <1>2, <1>3 DEF Owns
  <2>3. ended \subseteq Objects
    BY DEF BindingInv, TypeOK
  <2> QED BY <1>1, <2>1, <2>2, <2>3, HarmKeeps DEF Harms
<1>4. CASE IsOpen(a)
  <2> DEFINE c == [Idle EXCEPT !.at = "closing", !.object = o, !.file = a]
  <2>1. a \in Addresses /\ state[a] = "open"
    BY <1>4 DEF IsOpen
  <2>2. /\ state' = [state EXCEPT ![a] = "closing"]
        /\ alive /\ alive' /\ harm' = harm
        /\ UNCHANGED <<answer, owner, contents, bound>>
    BY <1>4 DEF Close, Library!Close, Library!Move, fileVars
  <2>3. c \in CallType /\ call' = [call EXCEPT ![t] = c]
    BY <1>1, <1>4, <2>1 DEF Close, Idle, CallType, BindingInv, CallsOK
  <2>4. /\ call' \in [Threads -> CallType]
        /\ call'[t] = c
        /\ \A u \in Threads \ {t} : call'[u] = call[u]
    BY <2>3, CallRecord DEF BindingInv, CallsOK
  <2>5. c.at = "closing" /\ c.object = o /\ c.file = a
    BY DEF Idle
  <2> HIDE DEF c, misuse
  <2>6. \A u \in Threads : /\ Making(u)' <=> Making(u)
                           /\ Making(u) => call'[u] = call[u]
    BY <1>1, <2>4, <2>5 DEF Making, Idle
  <2>7. TypeOK'
    BY <1>1, <2>1, <2>2, <2>4, <2>5
       DEF BindingInv, TypeOK, Library!States, Library!Answers
  <2>8. CallsOK'
    <3>1. CallOK(t)'
      BY <2>1, <2>4, <2>5 DEF CallOK, Making
    <3>2. \A u \in Threads \ {t} : CallOK(u)'
      BY <1>1, <2>1, <2>2, <2>4, <2>6 DEF BindingInv, CallsOK, CallOK, TypeOK
    <3> QED BY <2>4, <2>6, <3>1, <3>2 DEF BindingInv, CallsOK
  <2>9. Placed'
    <3>1. \A b \in Addresses : state'[b] # "empty" => state[b] # "empty"
      BY <2>1, <2>2 DEF BindingInv, TypeOK
    <3> QED BY <1>1, <2>2, <2>6, <3>1 DEF BindingInv, Placed
  <2>10. Kept'
    <3> SUFFICES ASSUME ~misused' PROVE Kept'
      BY DEF Kept
    <3>1. \A b \in Addresses : \A p : p # o /\ Owns(p, b) => Owns(p, b)'
      BY <1>2, <2>2 DEF Owns, IsOpen, BindingInv, TypeOK
    <3>2. \A p \in Objects \ ended : pointer[p] # None => pointer[p] \in Addresses
      BY DEF BindingInv, TypeOK
    <3>3. \A u \in Threads : call[u].at = "opened" => call[u].file \in Addresses
      BY DEF BindingInv, CallsOK, CallOK
    <3>4. ASSUME NEW p \in Objects \ ended', pointer'[p] # None
          PROVE  Owns(p, pointer[p])'
      BY <1>1, <1>2, <3>1, <3>2, <3>4 DEF BindingInv, Kept
    <3>5. ASSUME NEW u \in Threads, call'[u].at = "opened"
          PROVE  Owns(call[u].object, call[u].file)'
      BY <1>2, <2>4, <2>5, <3>1, <3>3, <3>5 DEF BindingInv, Kept
    <3>6. ASSUME NEW u \in Threads, call'[u].at = "filling"
          PROVE  /\ call'[u].object \notin ended'
                 /\ pointer'[call'[u].object] = call'[u].file
                 /\ call'[u].kind \in Lists
                 /\ call'[u].count = Len(contents'[call'[u].file][call'[u].kind])
      BY <1>1, <1>2, <2>2, <2>4, <2>5, <3>6 DEF BindingInv, Kept
    <3> QED BY <1>1, <3>4, <3>5, <3>6 DEF Kept
  <2>11. BindingHarmNeedsMisuse'
    BY <1>1, <2>2 DEF BindingInv, BindingHarmNeedsMisuse
  <2> QED BY <2>7, <2>8, <2>9, <2>10, <2>11 DEF BindingInv
<1> QED BY <1>3, <1>4

\* The file is gone, and no object that is not closed had it.
LEMMA CloseReturnsKeeps ==
    ASSUME BindingInv, NEW t \in Threads, CloseReturns(t)
    PROVE  BindingInv'
<1>1. PICK a \in Addresses : a = call[t].file /\ call[t].at = "closing"
  BY DEF CloseReturns, BindingInv, CallsOK, CallOK
<1>2. /\ alive /\ alive' /\ harm' = harm
      /\ state[a] = "closing"
      /\ state' = [state EXCEPT ![a] = "empty"]
      /\ owner' = [owner EXCEPT ![a] = None]
      /\ UNCHANGED <<answer, contents, bound, pointer, ended, misused>>
  BY <1>1 DEF CloseReturns, Library!Closed, Library!Move, hostVars
<1>3. /\ call' \in [Threads -> CallType]
      /\ call'[t] = Idle
      /\ \A u \in Threads \ {t} : call'[u] = call[u]
  BY IdleType, CallRecord DEF CloseReturns, Return, BindingInv, CallsOK
<1>4. \A u \in Threads : /\ Making(u)' <=> Making(u)
                         /\ Making(u) => call'[u] = call[u]
  BY <1>1, <1>3 DEF Making, Idle
<1>5. TypeOK'
  BY <1>2, <1>3 DEF BindingInv, TypeOK, Library!States, Library!Answers, Idle
<1>6. CallsOK'
  <2>1. CallOK(t)'
    BY <1>3 DEF CallOK, Making, Idle
  <2>2. \A u \in Threads \ {t} : CallOK(u)'
    BY <1>2, <1>3, <1>4 DEF BindingInv, CallsOK, CallOK, TypeOK
  <2> QED BY <1>3, <1>4, <2>1, <2>2 DEF BindingInv, CallsOK
<1>7. Placed'
  <2>1. \A b \in Addresses : state'[b] # "empty" =>
                                state[b] # "empty" /\ owner'[b] = owner[b]
    BY <1>2 DEF BindingInv, TypeOK
  <2> QED BY <1>2, <1>4, <2>1 DEF BindingInv, Placed
<1>8. Kept'
  <2>1. \A b \in Addresses : \A p : Owns(p, b) => Owns(p, b)'
    BY <1>2 DEF Owns, IsOpen, BindingInv, TypeOK
  <2>2. \A p \in Objects \ ended : pointer[p] # None => pointer[p] \in Addresses
    BY DEF BindingInv, TypeOK
  <2>3. \A u \in Threads : call[u].at = "opened" => call[u].file \in Addresses
    BY DEF BindingInv, CallsOK, CallOK
  <2>4. Idle.at = "idle"
    BY DEF Idle
  <2> QED BY <1>2, <1>3, <2>1, <2>2, <2>3, <2>4 DEF BindingInv, Kept
<1>9. BindingHarmNeedsMisuse'
  BY <1>2 DEF BindingInv, BindingHarmNeedsMisuse
<1> QED BY <1>5, <1>6, <1>7, <1>8, <1>9 DEF BindingInv

\* Every step of the binding keeps the invariant.
LEMMA BindingStep == BindingInv /\ [Next]_vars => BindingInv'
<1> SUFFICES ASSUME BindingInv, [Next]_vars PROVE BindingInv'
  OBVIOUS
<1>1. CASE Terminating \/ UNCHANGED vars
  BY <1>1, NothingKeeps
     DEF Terminating, vars, libraryVars, fileVars, hostVars, BindingInv, TypeOK
<1>2. ASSUME NEW t \in Threads,
             \/ OpenSucceeds(t) \/ OpenFails(t) \/ Wrap(t)
             \/ Fill(t) \/ CloseReturns(t) \/ CallStops(t)
      PROVE  BindingInv'
  BY <1>2, OpenSucceedsKeeps, OpenFailsKeeps, WrapKeeps, FillKeeps,
     CloseReturnsKeeps, CallStopsKeeps
<1>3. ASSUME NEW t \in Threads, NEW o \in Objects,
             \/ \E a \in Addresses : Open(t, o, a)
             \/ BindImport(t, o) \/ Export(t, o) \/ Close(t, o)
             \/ \E kind \in Lists : Count(t, o, kind)
      PROVE  BindingInv'
  BY <1>3, OpenKeeps, BindKeeps, ExportKeeps, CloseKeeps, CountKeeps
<1> QED BY <1>1, <1>2, <1>3 DEF Next

\* The invariant holds in every reachable state; the theorems are read off it.
LEMMA BindingCorrect == Spec => []BindingInv
BY BindingInit, BindingStep, PTL DEF Spec

\* Every variable stays in its range.
THEOREM BindingTypes == Spec => []TypeOK
<1>1. BindingInv => TypeOK
  BY DEF BindingInv
<1> QED BY <1>1, BindingCorrect, PTL

\* As long as the host misuses no object, one that is not closed has its own
\* file, however often the heap gives an address out again.
THEOREM ObjectOwnsItsFile == Spec => []OwnsItsFile
<1>1. BindingInv => OwnsItsFile
  BY DEF BindingInv, Kept, Owns, OwnsItsFile
<1> QED BY <1>1, BindingCorrect, PTL

\* A file that exists can be closed through its object, whatever the host does.
THEOREM FilesAreNotLost == Spec => []NoFileLost
<1>1. BindingInv => NoFileLost
  BY DEF BindingInv, Placed, Making, NoFileLost
<1> QED BY <1>1, BindingCorrect, PTL

\* The PeFile* and the arrays the binding hands to the library do harm only after
\* the host has misused an object. What the library does to the process on a
\* file that is there is another matter: any call may end so.
THEOREM BindingHarmIsMisuse == Spec => []BindingHarmNeedsMisuse
<1>1. BindingInv => BindingHarmNeedsMisuse
  BY DEF BindingInv
<1> QED BY <1>1, BindingCorrect, PTL

-----------------------------------------------------------------------------
(* Lists that took two calls *)

\* Each thread has a list.
ListsKept == list = [t \in Threads |-> list[t]]

LEMMA ListsInit == Init => ListsKept
BY DEF Init, ListsKept

\* A step gives at most one thread a new list.
LEMMA ListsStep == ListsKept /\ [Next]_vars => ListsKept'
<1> SUFFICES ASSUME ListsKept, [Next]_vars PROVE ListsKept'
  OBVIOUS
<1>1. \/ list' = list
      \/ \E t \in Threads : \E items : list' = [list EXCEPT ![t] = items]
  <2>1. ASSUME NEW t \in Threads, NEW o \in Objects, NEW kind \in Lists,
               Count(t, o, kind)
        PROVE  list' = list \/ list' = [list EXCEPT ![t] = <<>>]
    BY <2>1 DEF Count, GoesWrong, Harm
  <2>2. ASSUME NEW t \in Threads, Fill(t)
        PROVE  list' = list \/ \E items : list' = [list EXCEPT ![t] = items]
    BY <2>2 DEF Fill, GoesWrong, Harm
  <2>3. ASSUME NEW t \in Threads, NEW o \in Objects,
               \/ \E a \in Addresses : Open(t, o, a)
               \/ BindImport(t, o) \/ Export(t, o) \/ Close(t, o)
        PROVE  list' = list
    BY <2>3 DEF Open, BindImport, Export, Close, GoesWrong, Harm
  <2>4. ASSUME NEW t \in Threads,
               \/ OpenSucceeds(t) \/ OpenFails(t) \/ Wrap(t)
               \/ CloseReturns(t) \/ CallStops(t)
        PROVE  list' = list
    BY <2>4 DEF OpenSucceeds, OpenFails, Wrap, CloseReturns, CallStops, Harm
  <2>5. ASSUME Terminating \/ UNCHANGED vars PROVE list' = list
    BY <2>5 DEF Terminating, vars
  <2> QED BY <2>1, <2>2, <2>3, <2>4, <2>5 DEF Next
<1> QED BY <1>1 DEF ListsKept

\* The call that fills a list is the one that was asked for it.
LEMMA FillsOwnList ==
    ASSUME BindingInv, [Next]_vars, NEW t \in Threads,
           call[t].at = "filling", call'[t] = Idle
    PROVE  Fill(t) /\ call' # call
<1>1. call[t] # Idle /\ call' # call
  BY DEF Idle
<1>2. ASSUME NEW u \in Threads, NEW o \in Objects,
             \/ \E a \in Addresses : Open(u, o, a)
             \/ \E kind \in Lists : Count(u, o, kind)
             \/ Close(u, o)
      PROVE  FALSE
  <2>1. call[u] = Idle /\ \A v \in Threads \ {u} : call'[v] = call[v]
    BY <1>2 DEF Open, Count, Enter, Close, GoesWrong, Harm, BindingInv, CallsOK
  <2> QED BY <1>1, <2>1
<1>3. ASSUME NEW u \in Threads,
             OpenSucceeds(u) \/ OpenFails(u) \/ Wrap(u) \/ CloseReturns(u)
      PROVE  FALSE
  <2>1. /\ call[u].at \in {"opening", "opened", "closing"}
        /\ \A v \in Threads \ {u} : call'[v] = call[v]
    BY <1>3 DEF OpenSucceeds, OpenFails, Wrap, CloseReturns, Stored, Throw, Return,
       BindingInv, CallsOK
  <2> QED BY <1>1, <2>1
<1>4. ASSUME NEW u \in Threads, Fill(u) PROVE u = t
  <2>1. \A v \in Threads \ {u} : call'[v] = call[v]
    BY <1>4 DEF Fill, GoesWrong, Harm, Return, BindingInv, CallsOK
  <2> QED BY <1>1, <2>1
<1>5. ASSUME NEW u \in Threads, NEW o \in Objects,
             BindImport(u, o) \/ Export(u, o)
      PROVE  FALSE
  BY <1>1, <1>5 DEF BindImport, Export, GoesWrong, Harm
<1>6. ASSUME NEW u \in Threads, CallStops(u) PROVE FALSE
  BY <1>1, <1>6 DEF CallStops, Harm
<1>7. ASSUME Terminating \/ UNCHANGED vars PROVE FALSE
  BY <1>1, <1>7 DEF Terminating, vars
<1> QED BY <1>1, <1>2, <1>3, <1>4, <1>5, <1>6, <1>7 DEF Next

\* Without misuse, a list that took two calls is what the file of its object
\* lists: other threads may have opened and closed files in between.
THEOREM ListsAreComplete == Spec => ListsAreWhole
<1>1. ASSUME BindingInv, ListsKept, [Next]_vars, NEW t \in Threads,
             call[t].at = "filling", call'[t] = Idle, ~misused
      PROVE  LET a == pointer[call[t].object] IN
             /\ owner[a] = call[t].object
             /\ list'[t] = contents[a][call[t].kind]
  <2> DEFINE a == call[t].file
             entries == contents[a][call[t].kind]
  <2>1. Fill(t) /\ call' # call
    BY <1>1, FillsOwnList
  <2>2. /\ pointer[call[t].object] = a
        /\ a \in Addresses
        /\ owner[a] = call[t].object
        /\ call[t].kind \in Lists
        /\ call[t].count = Len(entries)
    BY <1>1, BindingAssumption DEF BindingInv, Kept, CallsOK, CallOK, Owns
  <2>3. /\ Len(entries) \in Nat
        /\ entries = [i \in 1..Len(entries) |-> entries[i]]
    BY <1>1, <2>2, ListsAreSequences DEF BindingInv
  <2> DEFINE items == [i \in 1..call[t].count |->
                          IF i <= Len(entries) THEN entries[i] ELSE NULL]
  <2>4. list' = [list EXCEPT ![t] = items]
    BY <2>1 DEF Fill, GoesWrong, Harm
  <2>5. list'[t] = items
    BY <1>1, <2>4 DEF ListsKept
  <2>6. items = [i \in 1..Len(entries) |-> entries[i]]
    <3>1. call[t].count = Len(entries)
      BY <2>2
    <3>2. Len(entries) \in Nat
      BY <2>3
    <3> HIDE DEF entries
    <3> QED BY <3>1, <3>2
  <2> QED BY <2>2, <2>3, <2>5, <2>6
<1>2. /\ BindingInv /\ ListsKept
      /\ [Next]_vars
      => [\A t \in Threads :
             call[t].at = "filling" /\ call'[t] = Idle /\ ~misused =>
                LET a == pointer[call[t].object] IN
                /\ owner[a] = call[t].object
                /\ list'[t] = contents[a][call[t].kind]]_vars
  BY <1>1
<1> QED BY <1>2, BindingCorrect, ListsInit, ListsStep, PTL
        DEF Spec, ListsAreWhole

=============================================================================
