-------------------------- MODULE JobserverProofs ---------------------------
(***************************************************************************)
(* Proofs about Jobserver, for any number of tests, processes and tokens.  *)
(*                                                                         *)
(* TokenInv, that tokens are neither made nor lost and that a test holds   *)
(* as many as its point in require_root says, is inductive.  The memory of *)
(* VMs, what can leave waiting tests stuck and the refinement of VmBudget  *)
(* follow from it.                                                         *)
(***************************************************************************)
EXTENDS Jobserver, FiniteSetTheorems, TLAPS

-----------------------------------------------------------------------------
(* Sets of tokens are finite, and what the pipe loses a test gets.         *)

\* Every set of tokens has a size.
LEMMA TokenSets ==
  ASSUME NEW S \in SUBSET Tokens
  PROVE  /\ IsFiniteSet(S)
         /\ Cardinality(S) \in Nat
         /\ Cardinality(S) <= Cardinality(Tokens)
         /\ Cardinality(S) = 0 <=> S = {}
BY FS_Subset, FS_CardinalityType, FS_EmptySet, JobserverAssumption

\* Tokens from different places add up.
LEMMA TokenUnion ==
  ASSUME NEW S \in SUBSET Tokens, NEW T \in SUBSET Tokens, S \cap T = {}
  PROVE  Cardinality(S \cup T) = Cardinality(S) + Cardinality(T)
<1>1. Cardinality(S \cup T) = Cardinality(S) + Cardinality(T) - Cardinality(S \cap T)
  BY TokenSets, FS_Union
<1>2. Cardinality(S \cap T) = 0 BY FS_EmptySet
<1>3. Cardinality(S) \in Nat /\ Cardinality(T) \in Nat BY TokenSets
<1> QED BY <1>1, <1>2, <1>3

\* A pipe belongs to a process or to the wrapper.
LEMMA ServerType == ASSUME NEW t \in Tests PROVE Server(t) \in Servers
BY JobserverAssumption DEF Server, Servers

\* One read of read_exact: a test that has all it needs now goes on, and any
\* other is short of some, because it has emptied the pipe.
LEMMA OneRead ==
  ASSUME TokenInv, NEW t \in Tests, Acquire(t)
  PROVE  \E S \in SUBSET pipe[Server(t)] :
           /\ S # {}
           /\ pipe' = [pipe EXCEPT ![Server(t)] = @ \ S]
           /\ got' = [got EXCEPT ![t] = @ \cup S]
           /\ \/ /\ Cardinality(got[t] \cup S) = Need[t]
                 /\ pc' = [pc EXCEPT ![t] = "launch"]
              \/ /\ Cardinality(got[t] \cup S) < Need[t]
                 /\ pc' = [pc EXCEPT ![t] = "acquire"]
                 /\ Cardinality(pipe[Server(t)]) < Need[t]
<1> DEFINE s == Server(t)
<1>1. PICK S \in SUBSET pipe[s] :
        /\ S # {}
        /\ Cardinality(S) = ReadSize(s, Missing(t))
        /\ Take(t, S)
        /\ Goto(t, IF Cardinality(S) = Missing(t) THEN "launch" ELSE "acquire")
  BY DEF Acquire
<1>2. s \in Servers /\ s \in made BY ServerType DEF TokenInv, Held, Acquire
<1>3. S \in SUBSET Tokens /\ pipe[s] \in SUBSET Tokens /\ got[t] \in SUBSET Tokens
  BY <1>1, <1>2 DEF TokenInv, TypeOK
<1>4. got[t] \cap S = {} BY <1>1, <1>2 DEF TokenInv, TokensConserved
<1>5. Cardinality(got[t] \cup S) = Cardinality(got[t]) + Cardinality(S)
  BY <1>3, <1>4, TokenUnion
<1>6. /\ Cardinality(S) \in Nat
      /\ Cardinality(got[t]) \in Nat
      /\ Cardinality(pipe[s]) \in Nat
      /\ Need[t] \in Nat
  BY <1>3, TokenSets, JobserverAssumption
<1>7. Cardinality(got[t]) < Need[t] BY DEF TokenInv, Held, Acquire
<1>8. CASE Cardinality(S) = Missing(t)
  <2>1. Cardinality(got[t] \cup S) = Need[t] BY <1>5, <1>6, <1>8 DEF Missing
  <2> QED BY <1>1, <1>8, <2>1 DEF Take, Goto
<1>9. CASE Cardinality(S) # Missing(t)
  <2>1. Cardinality(S) = Cardinality(pipe[s]) /\ Cardinality(pipe[s]) < Missing(t)
    BY <1>1, <1>9 DEF ReadSize
  <2>2. /\ Cardinality(got[t] \cup S) < Need[t]
        /\ Cardinality(pipe[s]) < Need[t]
    BY <1>5, <1>6, <2>1 DEF Missing
  <2> QED BY <1>1, <1>9, <2>2 DEF Take, Goto
<1> QED BY <1>8, <1>9

-----------------------------------------------------------------------------
(* TokenInv is inductive.                                                  *)

\* The pipes that exist are full, and nobody holds anything.
LEMMA TokenInit == Init => TokenInv
<1> SUFFICES ASSUME Init PROVE TokenInv OBVIOUS
<1>1. TypeOK
  BY JobserverAssumption DEF Init, TypeOK, Servers, Labels
<1>2. Held BY DEF Init, Held, Permit
<1>3. TokensConserved BY DEF Init, TokensConserved, Servers
<1> QED BY <1>1, <1>2, <1>3 DEF TokenInv

\* The first test of a process fills its pipe; nobody has read from it before.
LEMMA TokenGetJobserver ==
  ASSUME TokenInv, NEW t \in Tests, GetJobserver(t)
  PROVE  TokenInv'
<1>0. Server(t) \in Servers BY ServerType
<1>1. TypeOK'
  BY <1>0 DEF TokenInv, TypeOK, GetJobserver, Goto, Labels
<1>2. Held'
  <2>1. Cardinality(got[t]) = 0 /\ Need[t] \in Nat \ {0}
    BY FS_EmptySet, JobserverAssumption DEF TokenInv, Held, GetJobserver
  <2> QED
    BY <2>1 DEF TokenInv, TypeOK, Held, GetJobserver, Goto, Permit, Server
<1>3. TokensConserved'
  <2> SUFFICES ASSUME NEW s \in made'
               PROVE  LET users == {u \in Tests : Server(u) = s} IN
                      /\ \A u \in users : got'[u] \cap pipe'[s] = {}
                      /\ \A u, w \in users : u # w => got'[u] \cap got'[w] = {}
                      /\ \A k \in Tokens : k \in pipe'[s] \/ \E u \in users : k \in got'[u]
    BY DEF TokensConserved, Server
  <2>1. CASE s \in made
    <3>1. pipe'[s] = pipe[s] BY <1>0, <2>1 DEF GetJobserver, TokenInv, TypeOK
    <3> QED BY <2>1, <3>1 DEF TokenInv, TokensConserved, GetJobserver
  <2>2. CASE s \notin made
    <3>1. pipe'[s] = Tokens
      BY <1>0, <2>2 DEF GetJobserver, TokenInv, TypeOK
    <3>2. \A u \in Tests : Server(u) = s => got[u] = {}
      BY <2>2 DEF TokenInv, Held
    <3> QED BY <3>1, <3>2 DEF GetJobserver
  <2> QED BY <2>1, <2>2
<1> QED BY <1>1, <1>2, <1>3 DEF TokenInv

\* What a read takes from the pipe goes to the test that reads.
LEMMA TokenAcquire ==
  ASSUME TokenInv, NEW t \in Tests, Acquire(t)
  PROVE  TokenInv'
<1>1. PICK S \in SUBSET pipe[Server(t)] :
        /\ S # {}
        /\ pipe' = [pipe EXCEPT ![Server(t)] = @ \ S]
        /\ got' = [got EXCEPT ![t] = @ \cup S]
        /\ \/ /\ Cardinality(got[t] \cup S) = Need[t]
              /\ pc' = [pc EXCEPT ![t] = "launch"]
           \/ /\ Cardinality(got[t] \cup S) < Need[t]
              /\ pc' = [pc EXCEPT ![t] = "acquire"]
              /\ Cardinality(pipe[Server(t)]) < Need[t]
  BY OneRead
<1>2. Server(t) \in Servers /\ Server(t) \in made
  BY ServerType DEF TokenInv, Held, Acquire
<1>3. made' = made /\ vm' = vm /\ kills' = kills BY DEF Acquire, Take
<1>4. TypeOK' BY <1>1, <1>2, <1>3 DEF TokenInv, TypeOK, Labels, Permit
<1>5. Held'
  <2> SUFFICES ASSUME NEW u \in Tests
               PROVE  /\ pc'[u] \in {"new", "done"} => got'[u] = {}
                      /\ pc'[u] = "acquire" => Cardinality(got'[u]) < Need[u] /\ Server(u) \in made
                      /\ pc'[u] \in Permit => Cardinality(got'[u]) = Need[u] /\ Server(u) \in made
                      /\ got'[u] # {} => Server(u) \in made
                      /\ vm[u] /\ pc'[u] # "done" => Cardinality(got'[u]) = Need[u]
    BY <1>3 DEF Held, Server
  <2>1. CASE u # t
    <3>1. got'[u] = got[u] /\ pc'[u] = pc[u] BY <1>1, <2>1 DEF TokenInv, TypeOK
    <3> QED BY <3>1 DEF TokenInv, Held
  <2>2. CASE u = t
    <3>1. got'[t] = got[t] \cup S BY <1>1 DEF TokenInv, TypeOK
    <3>2. ~vm[t]
      <4>1. Cardinality(got[t]) < Need[t] /\ Need[t] \in Nat /\ Cardinality(got[t]) \in Nat
        BY TokenSets, JobserverAssumption DEF TokenInv, TypeOK, Held, Acquire
      <4> QED BY <4>1 DEF TokenInv, Held, Acquire
    <3>3. pc'[t] \in {"launch", "acquire"} /\ (pc'[t] = "launch" => Cardinality(got'[t]) = Need[t])
          /\ (pc'[t] = "acquire" => Cardinality(got'[t]) < Need[t])
      BY <1>1, <3>1 DEF TokenInv, TypeOK
    <3> QED BY <1>2, <2>2, <3>2, <3>3 DEF Permit
  <2> QED BY <2>1, <2>2
<1>6. TokensConserved'
  <2> SUFFICES ASSUME NEW s \in made
               PROVE  LET users == {u \in Tests : Server(u) = s} IN
                      /\ \A u \in users : got'[u] \cap pipe'[s] = {}
                      /\ \A u, w \in users : u # w => got'[u] \cap got'[w] = {}
                      /\ \A k \in Tokens : k \in pipe'[s] \/ \E u \in users : k \in got'[u]
    BY <1>3 DEF TokensConserved, Server
  <2>1. /\ \A u \in Tests : got'[u] = IF u = t THEN got[t] \cup S ELSE got[u]
        /\ pipe'[s] = IF s = Server(t) THEN pipe[s] \ S ELSE pipe[s]
    BY <1>1, <1>2 DEF TokenInv, TypeOK
  <2>2. LET users == {u \in Tests : Server(u) = s} IN
        /\ \A u \in users : got[u] \cap pipe[s] = {}
        /\ \A u, w \in users : u # w => got[u] \cap got[w] = {}
        /\ \A k \in Tokens : k \in pipe[s] \/ \E u \in users : k \in got[u]
    BY DEF TokenInv, TokensConserved
  <2>3. CASE s # Server(t) BY <2>1, <2>2, <2>3
  <2>4. CASE s = Server(t) BY <1>1, <2>1, <2>2, <2>4
  <2> QED BY <2>3, <2>4
<1> QED BY <1>4, <1>5, <1>6 DEF TokenInv

\* A permit goes back to the pipe it came from.
LEMMA TokenDrop ==
  ASSUME TokenInv, NEW t \in Tests, Drop(t)
  PROVE  TokenInv'
<1>1. Server(t) \in Servers /\ Server(t) \in made
  BY ServerType DEF TokenInv, Held, Drop, Permit
<1>2. TypeOK' BY <1>1 DEF TokenInv, TypeOK, Drop, Goto, Labels
<1>3. Held'
  <2>1. \A u \in Tests : u # t => got'[u] = got[u] /\ pc'[u] = pc[u]
    BY DEF TokenInv, TypeOK, Drop, Goto
  <2>2. got'[t] = {} /\ pc'[t] = "done" BY DEF TokenInv, TypeOK, Drop, Goto
  <2> QED BY <2>1, <2>2 DEF TokenInv, Held, Drop, Server, Permit
<1>4. TokensConserved'
  <2> SUFFICES ASSUME NEW s \in made
               PROVE  LET users == {u \in Tests : Server(u) = s} IN
                      /\ \A u \in users : got'[u] \cap pipe'[s] = {}
                      /\ \A u, w \in users : u # w => got'[u] \cap got'[w] = {}
                      /\ \A k \in Tokens : k \in pipe'[s] \/ \E u \in users : k \in got'[u]
    BY DEF TokensConserved, Server, Drop
  <2>1. /\ \A u \in Tests : got'[u] = IF u = t THEN {} ELSE got[u]
        /\ pipe'[s] = IF s = Server(t) THEN pipe[s] \cup got[t] ELSE pipe[s]
    BY <1>1 DEF TokenInv, TypeOK, Drop
  <2>2. LET users == {u \in Tests : Server(u) = s} IN
        /\ \A u \in users : got[u] \cap pipe[s] = {}
        /\ \A u, w \in users : u # w => got[u] \cap got[w] = {}
        /\ \A k \in Tokens : k \in pipe[s] \/ \E u \in users : k \in got[u]
    BY DEF TokenInv, TokensConserved
  <2>3. CASE s # Server(t) BY <2>1, <2>2, <2>3
  <2>4. CASE s = Server(t) BY <2>1, <2>2, <2>4
  <2> QED BY <2>3, <2>4
<1> QED BY <1>2, <1>3, <1>4 DEF TokenInv
\* The steps of the VM touch no token.  They keep a permit and its label.
LEMMA TokenVmStep ==
  ASSUME TokenInv, NEW t \in Tests, Launch(t) \/ Boot(t) \/ Guest(t) \/ Remove(t)
  PROVE  TokenInv'
<1>1. /\ UNCHANGED <<pipe, made, got, kills>>
      /\ pc[t] \in Permit
      /\ pc' \in [Tests -> Labels]
      /\ pc'[t] \in Permit
      /\ \A u \in Tests : u # t => pc'[u] = pc[u]
      /\ vm' \in [Tests -> BOOLEAN]
      /\ \A u \in Tests : u # t => vm'[u] = vm[u]
  <2>0. TypeOK BY DEF TokenInv
  <2>1. CASE Launch(t) BY <2>0, <2>1 DEF Launch, Goto, Permit, Labels, TypeOK
  <2>2. CASE Boot(t)
    <3>1. (t \in Booted) \in BOOLEAN OBVIOUS
    <3> QED BY <2>0, <2>2, <3>1 DEF Boot, Goto, Permit, Labels, TypeOK
  <2>3. CASE Guest(t) BY <2>0, <2>3 DEF Guest, Goto, Permit, Labels, TypeOK
  <2>4. CASE Remove(t) BY <2>0, <2>4 DEF Remove, Goto, Permit, Labels, TypeOK
  <2> QED BY <2>1, <2>2, <2>3, <2>4
<1>2. TypeOK' BY <1>1 DEF TokenInv, TypeOK
<1>3. Held' BY <1>1 DEF TokenInv, Held, Server, Permit
<1>4. TokensConserved' BY <1>1 DEF TokenInv, TokensConserved, Server
<1> QED BY <1>2, <1>3, <1>4 DEF TokenInv

\* A killed process keeps the tokens its tests have read.
LEMMA TokenKill ==
  ASSUME TokenInv, NEW p \in Procs, Kill(p)
  PROVE  TokenInv'
<1>1. TypeOK'
  BY JobserverAssumption DEF TokenInv, TypeOK, Kill, Labels
<1>2. Held'
  <2>1. \A t \in Tests : pc'[t] # pc[t] => pc'[t] = "killed" /\ pc[t] # "done"
    BY DEF Kill, Ended
  <2> QED BY <2>1 DEF TokenInv, Held, Kill, Server, Permit
<1>3. TokensConserved' BY DEF TokenInv, TokensConserved, Kill, Server
<1> QED BY <1>1, <1>2, <1>3 DEF TokenInv

\* The pipe and the permits conserve the tokens (VmJobserver, VmPermit), and a
\* test has as many as its point in require_root says.
THEOREM TokenInvariant == Spec => []TokenInv
<1>1. TokenInv /\ UNCHANGED vars => TokenInv'
  BY DEF TokenInv, TypeOK, Held, TokensConserved, Server, vars
<1>2. TokenInv /\ [Next]_vars => TokenInv'
  BY <1>1, TokenGetJobserver, TokenAcquire, TokenVmStep, TokenDrop, TokenKill
  DEF Next, TestStep
<1> QED BY <1>2, TokenInit, PTL DEF Spec

-----------------------------------------------------------------------------
(* The memory of VMs.                                                      *)

\* With one pipe for all, from my-tests --vm-jobserver, no two VMs of tests
\* that are still in require_root are on the same memory.
THEOREM VmsOnOwnMemory == ASSUME Inherited PROVE Spec => []VmsBacked
<1>1. TokenInv => VmsBacked
  <2> SUFFICES ASSUME TokenInv, NEW t \in Tests, vm[t], pc[t] # "done"
               PROVE  Backed(t)
    BY DEF VmsBacked
  <2>1. Cardinality(got[t]) = Need[t] BY DEF TokenInv, Held
  <2>2. ASSUME NEW u \in Tests \ {t} PROVE got[t] \cap got[u] = {}
    <3>1. Server(t) = Wrapper /\ Server(u) = Wrapper BY DEF Server
    <3>2. CASE got[t] = {} BY <3>2
    <3>3. CASE Wrapper \in made BY <3>1, <3>3 DEF TokenInv, TokensConserved
    <3> QED BY <3>1, <3>2, <3>3 DEF TokenInv, Held
  <2> QED BY <2>1, <2>2 DEF Backed
<1> QED BY <1>1, TokenInvariant, PTL

-----------------------------------------------------------------------------
(* Only a test that is larger than another, or than the budget, gets stuck. *)

\* A test that waits with a part stays too large for as long as it waits.
LEMMA OutgrowsStays ==
  ASSUME TokenInv, NEW t \in Tests, Outgrows(t),
         \A u \in Tests : pc[u] = "done" => pc'[u] = "done",
         pc'[t] = "acquire", got[t] \subseteq got'[t]
  PROVE  Outgrows(t)'
BY DEF Outgrows, Users, Server

\* A test leaves no reason to go on behind if it changes neither the pipes nor
\* what others hold.
LEMMA EnoughStays ==
  ASSUME TokenInv, EnoughLeft, kills = 0, NEW s \in made,
         pipe'[s] = pipe[s],
         \A u \in Users(s) :
           /\ pc[u] = "done" => pc'[u] = "done"
           /\ pc[u] \in Permit => pc'[u] \in Permit
           /\ pc[u] = "acquire" => pc'[u] = "acquire" /\ got[u] \subseteq got'[u]
  PROVE  \/ pipe'[s] = Tokens
         \/ \E u \in Users(s) : pc'[u] = "done" /\ Cardinality(pipe'[s]) >= Need[u]
         \/ \E u \in Users(s) : pc'[u] \in Permit \/ Outgrows(u)'
<1>1. ASSUME NEW u \in Users(s), Outgrows(u) PROVE Outgrows(u)'
  BY <1>1 DEF Outgrows, Users, Server
<1> QED BY <1>1 DEF EnoughLeft

\* A pipe is full when it is made.
LEMMA EnoughGetJobserver ==
  ASSUME TokenInv, EnoughLeft, NEW t \in Tests, GetJobserver(t)
  PROVE  EnoughLeft'
<1> SUFFICES ASSUME kills = 0, NEW s \in made'
             PROVE  \/ pipe'[s] = Tokens
                    \/ \E u \in Users(s) : pc'[u] = "done" /\ Cardinality(pipe'[s]) >= Need[u]
                    \/ \E u \in Users(s) : pc'[u] \in Permit \/ Outgrows(u)'
  BY DEF EnoughLeft, Users, Server, GetJobserver
<1>1. Server(t) \in Servers BY ServerType
<1>2. CASE s \in made
  <2>1. pipe'[s] = pipe[s] BY <1>1, <1>2 DEF GetJobserver, TokenInv, TypeOK
  <2>2. \A u \in Tests : pc[u] # "new" => pc'[u] = pc[u]
    BY DEF GetJobserver, Goto, TokenInv, TypeOK
  <2>3. got' = got BY DEF GetJobserver
  <2> QED BY <1>2, <2>1, <2>2, <2>3, EnoughStays DEF Users, Permit
<1>3. CASE s \notin made
  <2>1. s = Server(t) BY <1>3 DEF GetJobserver
  <2> QED BY <1>1, <1>3, <2>1 DEF GetJobserver, TokenInv, TypeOK
<1> QED BY <1>2, <1>3

\* A test that a read leaves short has found fewer tokens than it needs: fewer
\* than the whole budget, or than a test that has ended had.
LEMMA EnoughAcquire ==
  ASSUME TokenInv, EnoughLeft, NEW t \in Tests, Acquire(t)
  PROVE  EnoughLeft'
<1>1. PICK S \in SUBSET pipe[Server(t)] :
        /\ S # {}
        /\ pipe' = [pipe EXCEPT ![Server(t)] = @ \ S]
        /\ got' = [got EXCEPT ![t] = @ \cup S]
        /\ \/ pc' = [pc EXCEPT ![t] = "launch"]
           \/ /\ pc' = [pc EXCEPT ![t] = "acquire"]
              /\ Cardinality(pipe[Server(t)]) < Need[t]
  BY OneRead
<1> SUFFICES ASSUME kills = 0, NEW s \in made
             PROVE  \/ pipe'[s] = Tokens
                    \/ \E u \in Users(s) : pc'[u] = "done" /\ Cardinality(pipe'[s]) >= Need[u]
                    \/ \E u \in Users(s) : pc'[u] \in Permit \/ Outgrows(u)'
  BY DEF EnoughLeft, Users, Server, Acquire, Take
<1>2. pc[t] = "acquire" /\ Server(t) \in made BY DEF TokenInv, Held, Acquire
<1>3. \A u \in Tests : u # t => pc'[u] = pc[u] /\ got'[u] = got[u]
  BY <1>1 DEF TokenInv, TypeOK
<1>4. got'[t] = got[t] \cup S BY <1>1 DEF TokenInv, TypeOK
<1>5. CASE s # Server(t)
  <2>1. pipe'[s] = pipe[s] BY <1>1, <1>5, ServerType DEF TokenInv, TypeOK
  <2>2. t \notin Users(s) BY <1>5 DEF Users
  <2> QED BY <1>3, <2>1, <2>2, EnoughStays DEF Users
<1>6. CASE s = Server(t) /\ pc' = [pc EXCEPT ![t] = "launch"]
  <2>1. pc'[t] \in Permit /\ t \in Users(s) BY <1>6 DEF Permit, Users, TokenInv, TypeOK
  <2> QED BY <2>1
<1>7. CASE /\ s = Server(t)
           /\ pc' = [pc EXCEPT ![t] = "acquire"]
           /\ Cardinality(pipe[Server(t)]) < Need[t]
  <2>1. pc'[t] = "acquire" /\ t \in Users(s) BY <1>7 DEF Users, TokenInv, TypeOK
  <2>2. \A u \in Tests : pc'[u] = pc[u] BY <1>2, <1>3, <2>1
  <2>3. Cardinality(pipe[s]) \in Nat /\ \A u \in Tests : Need[u] \in Nat
    BY TokenSets, JobserverAssumption DEF TokenInv, TypeOK
  <2>4. CASE pipe[s] = Tokens
    <3>1. Need[t] > Cardinality(Tokens) BY <1>7, <2>3, <2>4
    <3> QED BY <1>1, <1>4, <2>1, <3>1 DEF Outgrows
  <2>5. CASE \E u \in Users(s) : pc[u] = "done" /\ Cardinality(pipe[s]) >= Need[u]
    <3>1. PICK u \in Users(s) : pc[u] = "done" /\ Cardinality(pipe[s]) >= Need[u]
      BY <2>5
    <3>2. Need[u] < Need[t] BY <1>7, <2>3, <3>1 DEF Users
    <3>3. u \in Users(Server(t)) /\ pc'[u] = "done" BY <1>7, <2>2, <3>1 DEF Users
    <3> QED BY <1>1, <1>4, <2>1, <3>2, <3>3 DEF Outgrows, Users, Server
  <2>6. CASE \E u \in Users(s) : pc[u] \in Permit
    BY <2>2, <2>6 DEF Users
  <2>7. CASE \E u \in Users(s) : Outgrows(u)
    <3>1. PICK u \in Users(s) : Outgrows(u) BY <2>7
    <3>2. got[u] \subseteq got'[u] BY <1>3, <1>4 DEF Users
    <3>3. Outgrows(u)' BY <2>2, <3>1, <3>2, OutgrowsStays DEF Users, Outgrows
    <3> QED BY <3>1, <3>3
  <2> QED BY <2>4, <2>5, <2>6, <2>7 DEF EnoughLeft
<1> QED BY <1>1, <1>5, <1>6, <1>7

\* What a test returns is enough for one of its size.
LEMMA EnoughDrop ==
  ASSUME TokenInv, EnoughLeft, NEW t \in Tests, Drop(t)
  PROVE  EnoughLeft'
<1> SUFFICES ASSUME kills = 0, NEW s \in made
             PROVE  \/ pipe'[s] = Tokens
                    \/ \E u \in Users(s) : pc'[u] = "done" /\ Cardinality(pipe'[s]) >= Need[u]
                    \/ \E u \in Users(s) : pc'[u] \in Permit \/ Outgrows(u)'
  BY DEF EnoughLeft, Users, Server, Drop
<1>1. Server(t) \in Servers BY ServerType
<1>2. CASE s # Server(t)
  <2>1. pipe'[s] = pipe[s] BY <1>1, <1>2 DEF Drop, TokenInv, TypeOK
  <2>2. \A u \in Users(s) : pc'[u] = pc[u] /\ got'[u] = got[u]
    BY <1>2 DEF Users, Drop, Goto, TokenInv, TypeOK
  <2> QED BY <2>1, <2>2, EnoughStays
<1>3. CASE s = Server(t)
  <2>1. pipe'[s] = pipe[s] \cup got[t] BY <1>1, <1>3 DEF Drop, TokenInv, TypeOK
  <2>2. pipe'[s] \in SUBSET Tokens BY <1>1, <1>3, <2>1 DEF TokenInv, TypeOK
  <2>3. Cardinality(got[t]) <= Cardinality(pipe'[s])
    BY <2>1, <2>2, TokenSets, FS_Subset
  <2>4. Cardinality(got[t]) = Need[t] BY DEF TokenInv, Held, Drop, Permit
  <2>5. pc'[t] = "done" /\ t \in Users(s)
    BY <1>3 DEF Drop, Goto, Users, TokenInv, TypeOK
  <2> QED BY <2>3, <2>4, <2>5
<1> QED BY <1>2, <1>3

\* Whatever the tests need, and until one is killed: at any pipe somebody has a
\* permit, there is enough for a test as small as one that has ended, or a
\* larger test holds a part.
THEOREM EnoughInvariant == Spec => []EnoughLeft
<1>1. Init => EnoughLeft BY DEF Init, EnoughLeft, Servers
<1>2. TokenInv /\ EnoughLeft /\ [Next]_vars => EnoughLeft'
  <2> SUFFICES ASSUME TokenInv, EnoughLeft, [Next]_vars PROVE EnoughLeft'
    OBVIOUS
  <2>1. ASSUME NEW t \in Tests, Launch(t) \/ Boot(t) \/ Guest(t) \/ Remove(t)
        PROVE  EnoughLeft'
    <3>1. /\ UNCHANGED <<pipe, made, got, kills>>
          /\ \A u \in Tests : /\ pc[u] \in Permit => pc'[u] \in Permit
                              /\ pc[u] \notin Permit => pc'[u] = pc[u]
      BY <2>1 DEF Launch, Boot, Guest, Remove, Goto, Permit, TokenInv, TypeOK
    <3> SUFFICES ASSUME kills = 0, NEW s \in made
                 PROVE  \/ pipe'[s] = Tokens
                        \/ \E u \in Users(s) : pc'[u] = "done" /\ Cardinality(pipe'[s]) >= Need[u]
                        \/ \E u \in Users(s) : pc'[u] \in Permit \/ Outgrows(u)'
      BY <3>1 DEF EnoughLeft, Users, Server
    <3> QED BY <3>1, EnoughStays DEF Users, Permit
  <2>2. ASSUME NEW p \in Procs, Kill(p) PROVE EnoughLeft'
    <3>1. kills' # 0 BY <2>2 DEF Kill, TokenInv, TypeOK
    <3> QED BY <3>1 DEF EnoughLeft
  <2>3. CASE UNCHANGED vars
    BY <2>3 DEF EnoughLeft, Outgrows, Users, Server, vars
  <2> QED
    BY <2>1, <2>2, <2>3, EnoughGetJobserver, EnoughAcquire, EnoughDrop
    DEF Next, TestStep
<1> QED BY <1>1, <1>2, TokenInvariant, PTL DEF Spec

\* read_exact deadlocks tests, whatever they need, only if one that holds a part
\* needs more than a test that has ended, or than the budget.
THEOREM StuckBySize == Spec => []StuckOnlyBySize
<1>1. TokenInv /\ EnoughLeft => StuckOnlyBySize
  <2> SUFFICES ASSUME TokenInv, EnoughLeft, kills = 0,
                      NEW t \in Tests, pc[t] = "acquire", pipe[Server(t)] = {}
               PROVE  \E u \in Users(Server(t)) : pc[u] \in Permit \/ Outgrows(u)
    BY DEF StuckOnlyBySize
  <2>1. Server(t) \in made BY DEF TokenInv, Held
  <2>2. Cardinality(pipe[Server(t)]) = 0 BY FS_EmptySet
  <2>3. \A u \in Tests : Need[u] \in Nat \ {0} BY JobserverAssumption
  <2>4. ~ \E u \in Users(Server(t)) : Cardinality(pipe[Server(t)]) >= Need[u]
    BY <2>2, <2>3 DEF Users
  <2>5. pipe[Server(t)] # Tokens BY JobserverAssumption
  <2> QED BY <2>1, <2>4, <2>5 DEF EnoughLeft
<1> QED BY <1>1, EnoughInvariant, TokenInvariant, PTL

-----------------------------------------------------------------------------
(* Jobserver implements VmBudget.                                          *)

\* The refinement mapping.
Free == pipe[Wrapper] \cup UNION {got[t] : t \in {u \in Tests : pc[u] = "acquire"}}
Permits == [t \in Tests |-> IF Cardinality(got[t]) = Need[t] THEN got[t] ELSE {}]

\* A token is free if it is in the pipe or with a test that waits for more.
LEMMA FreeTokens ==
  \A k : k \in Free <=> k \in pipe[Wrapper] \/ \E t \in Tests : pc[t] = "acquire" /\ k \in got[t]
BY DEF Free

\* A test without tokens has no permit.
LEMMA NoTokensNoPermit ==
  ASSUME NEW t \in Tests, got[t] = {} PROVE Permits[t] = {}
BY DEF Permits

\* At first all tokens are in the pipe.
LEMMA BudgetInit == ASSUME Inherited, Init PROVE Budget!Init
<1>1. Free = Tokens
  <2>1. pipe[Wrapper] = Tokens BY DEF Init, Servers
  <2>2. \A t \in Tests : pc[t] # "acquire" BY DEF Init
  <2> QED BY <2>1, <2>2, FreeTokens
<1>2. Permits = [t \in Tests |-> {}] BY DEF Permits, Init
<1> QED BY <1>1, <1>2 DEF Budget!Init, Free, Permits

\* The wrapper has made its pipe before any test starts.
LEMMA WrapperMade == ASSUME Inherited PROVE Spec => [](Wrapper \in made)
<1>1. Init => Wrapper \in made BY DEF Init
<1>2. Wrapper \in made /\ [Next]_vars => (Wrapper \in made)'
  BY DEF Next, TestStep, GetJobserver, Acquire, Take, Launch, Boot, Guest, Remove,
         Drop, Kill, vars
<1> QED BY <1>1, <1>2, PTL DEF Spec

\* A permit is acquired in one step: the read that completes it.
LEMMA BudgetAcquire ==
  ASSUME Inherited, TokenInv, Wrapper \in made, NEW t \in Tests, Acquire(t)
  PROVE  Budget!Acquire(t) \/ (Free' = Free /\ Permits' = Permits)
<1>1. PICK S \in SUBSET pipe[Server(t)] :
        /\ S # {}
        /\ pipe' = [pipe EXCEPT ![Server(t)] = @ \ S]
        /\ got' = [got EXCEPT ![t] = @ \cup S]
        /\ \/ /\ Cardinality(got[t] \cup S) = Need[t]
              /\ pc' = [pc EXCEPT ![t] = "launch"]
           \/ /\ Cardinality(got[t] \cup S) < Need[t]
              /\ pc' = [pc EXCEPT ![t] = "acquire"]
              /\ Cardinality(pipe[Server(t)]) < Need[t]
  BY OneRead
<1> DEFINE mine == got[t] \cup S
<1>2. \A u \in Tests : Server(u) = Wrapper BY DEF Server
<1>3. Wrapper \in Servers BY DEF Servers
<1>4. pipe'[Wrapper] = pipe[Wrapper] \ S BY <1>1, <1>2, <1>3 DEF TokenInv, TypeOK
<1>5. \A u \in Tests : got'[u] = IF u = t THEN mine ELSE got[u]
  BY <1>1 DEF TokenInv, TypeOK
<1>6. pc[t] = "acquire" /\ Cardinality(got[t]) < Need[t]
  BY DEF TokenInv, Held, Acquire
<1>7. mine \in SUBSET Tokens /\ got[t] \in SUBSET Tokens /\ Need[t] \in Nat
  BY <1>1, <1>2, <1>3, JobserverAssumption DEF TokenInv, TypeOK
<1>8. Cardinality(got[t]) # Need[t] BY <1>6, <1>7, TokenSets
<1>9. Permits[t] = {} BY <1>8 DEF Permits
<1>10. mine \subseteq Free BY <1>1, <1>2, <1>6, FreeTokens
<1>11. CASE Cardinality(mine) = Need[t] /\ pc' = [pc EXCEPT ![t] = "launch"]
  <2>1. \A u \in Tests : pc'[u] = IF u = t THEN "launch" ELSE pc[u]
    BY <1>11 DEF TokenInv, TypeOK
  <2>2. Permits' = [Permits EXCEPT ![t] = mine]
    BY <1>5, <1>11 DEF Permits
  <2>3. Free' = Free \ mine
    <3>1. \A u \in Tests : u # t => got[u] \cap mine = {}
      BY <1>1, <1>2 DEF TokenInv, TokensConserved
    <3>2. got[t] \cap pipe[Wrapper] = {} BY <1>2 DEF TokenInv, TokensConserved
    <3>3. \A k : k \in Free' <=>
            k \in pipe'[Wrapper] \/ \E u \in Tests : pc'[u] = "acquire" /\ k \in got'[u]
      BY DEF Free
    <3> QED BY <1>4, <1>5, <1>6, <2>1, <3>1, <3>2, <3>3, FreeTokens
  <2>4. mine \in {T \in SUBSET Tokens : Cardinality(T) = Need[t]} BY <1>7, <1>11
  <2> QED BY <1>9, <1>10, <2>2, <2>3, <2>4 DEF Budget!Acquire, Free, Permits
<1>12. CASE Cardinality(mine) < Need[t] /\ pc' = [pc EXCEPT ![t] = "acquire"]
  <2>1. pc' = pc BY <1>6, <1>12 DEF TokenInv, TypeOK
  <2>2. Cardinality(mine) # Need[t] BY <1>7, <1>12, TokenSets
  <2>3. Permits' = Permits BY <1>5, <1>8, <2>2 DEF Permits
  <2>4. \A k : k \in Free' <=>
          k \in pipe'[Wrapper] \/ \E u \in Tests : pc'[u] = "acquire" /\ k \in got'[u]
    BY DEF Free
  <2>5. S \subseteq pipe[Wrapper] BY <1>1, <1>2
  <2>6. \A k : k \in Free' <=> k \in Free
    <3> TAKE k
    <3>1. CASE k \in S
      <4>1. k \in Free BY <2>5, <3>1, FreeTokens
      <4>2. k \in got'[t] /\ pc'[t] = "acquire" BY <1>5, <1>6, <2>1, <3>1
      <4> QED BY <4>1, <4>2, <2>4
    <3>2. CASE k \notin S
      <4>1. k \in pipe'[Wrapper] <=> k \in pipe[Wrapper] BY <1>4, <3>2
      <4>2. \A u \in Tests : k \in got'[u] <=> k \in got[u] BY <1>5, <3>2
      <4> QED BY <2>1, <2>4, <4>1, <4>2, FreeTokens
    <3> QED BY <3>1, <3>2
  <2>7. Free' = Free BY <2>6
  <2> QED BY <2>3, <2>7
<1> QED BY <1>1, <1>11, <1>12

\* The drop of VmPermit returns all of it.
LEMMA BudgetDrop ==
  ASSUME Inherited, TokenInv, Wrapper \in made, NEW t \in Tests, Drop(t)
  PROVE  Budget!Release(t)
<1>1. Server(t) = Wrapper /\ Wrapper \in Servers BY DEF Server, Servers
<1>2. pipe'[Wrapper] = pipe[Wrapper] \cup got[t]
  BY <1>1 DEF Drop, TokenInv, TypeOK
<1>3. /\ \A u \in Tests : got'[u] = IF u = t THEN {} ELSE got[u]
      /\ \A u \in Tests : pc'[u] = IF u = t THEN "done" ELSE pc[u]
      /\ pc[t] = "drop"
  BY DEF Drop, Goto, TokenInv, TypeOK
<1>4. Cardinality(got[t]) = Need[t] /\ Need[t] \in Nat \ {0}
  BY JobserverAssumption DEF TokenInv, Held, Drop, Permit
<1>5. got[t] # {} BY <1>4, FS_EmptySet
<1>6. Permits[t] = got[t] BY <1>4 DEF Permits
<1>7. Permits' = [Permits EXCEPT ![t] = {}]
  BY <1>3 DEF Permits
<1>8. \A k : k \in Free' <=>
        k \in pipe'[Wrapper] \/ \E u \in Tests : pc'[u] = "acquire" /\ k \in got'[u]
  BY DEF Free
<1>9. Free' = Free \cup got[t] BY <1>2, <1>3, <1>8, FreeTokens
<1> QED BY <1>5, <1>6, <1>7, <1>9 DEF Budget!Release, Free, Permits

\* Every step of the jobserver is a step of VmBudget, or none.
LEMMA BudgetStep ==
  ASSUME Inherited, TokenInv, Wrapper \in made, [Next]_vars
  PROVE  Budget!Next \/ (Free' = Free /\ Permits' = Permits)
<1>0. \A k : k \in Free' <=>
        k \in pipe'[Wrapper] \/ \E u \in Tests : pc'[u] = "acquire" /\ k \in got'[u]
  BY DEF Free
<1>1. ASSUME NEW t \in Tests, GetJobserver(t)
      PROVE  Free' = Free /\ Permits' = Permits
  <2>1. Server(t) = Wrapper /\ Wrapper \in Servers BY DEF Server, Servers
  <2>2. pipe'[Wrapper] = pipe[Wrapper] /\ got' = got
    BY <1>1, <2>1 DEF GetJobserver, TokenInv, TypeOK
  <2>3. got[t] = {} BY <1>1 DEF GetJobserver, TokenInv, Held
  <2>4. \A u \in Tests : u # t => pc'[u] = pc[u]
    BY <1>1 DEF GetJobserver, Goto, TokenInv, TypeOK
  <2>5. Free' = Free BY <1>0, <2>2, <2>3, <2>4, FreeTokens
  <2> QED BY <2>2, <2>5 DEF Permits
<1>2. ASSUME NEW t \in Tests, Launch(t) \/ Boot(t) \/ Guest(t) \/ Remove(t)
      PROVE  Free' = Free /\ Permits' = Permits
  <2>1. /\ pipe' = pipe /\ got' = got
        /\ \A u \in Tests : pc'[u] = "acquire" <=> pc[u] = "acquire"
    BY <1>2 DEF Launch, Boot, Guest, Remove, Goto, TokenInv, TypeOK
  <2>2. Free' = Free BY <1>0, <2>1, FreeTokens
  <2> QED BY <2>1, <2>2 DEF Permits
<1>3. ASSUME NEW p \in Procs, Kill(p) PROVE Budget!Lose
  <2>1. /\ pipe' = pipe /\ got' = got
        /\ \A u \in Tests : pc'[u] = "acquire" => pc[u] = "acquire"
    BY <1>3 DEF Kill
  <2>2. Free' \in SUBSET Free BY <1>0, <2>1, FreeTokens
  <2>3. Permits' = Permits BY <2>1 DEF Permits
  <2> QED BY <2>2, <2>3 DEF Budget!Lose, Free, Permits
<1>4. CASE UNCHANGED vars BY <1>4 DEF Free, Permits, vars
<1> QED
  BY <1>1, <1>2, <1>3, <1>4, BudgetAcquire, BudgetDrop
  DEF Next, TestStep, Budget!Next

\* The pipe of my-tests --vm-jobserver gives every test all the tokens of its
\* VM or none, each to one test, and takes them all back (resources.rs).
THEOREM BudgetRefinement == ASSUME Inherited PROVE Spec => JobserverIsBudget
<1>1. Init => Budget!Init BY BudgetInit
<1>2. TokenInv /\ Wrapper \in made /\ [Next]_vars =>
        [Budget!Next]_(Budget!vars)
  BY BudgetStep DEF Budget!vars, Free, Permits
<1> QED
  BY <1>1, <1>2, TokenInvariant, WrapperMade, PTL
  DEF Spec, JobserverIsBudget, Budget!Spec
=============================================================================
