------------------------- MODULE OAuth2TokensProofs -------------------------
(***************************************************************************)
(* Theorems about OAuth2Tokens.tla, for any number of objects, callers and *)
(* tokens.                                                                 *)
(*                                                                         *)
(* The inductive invariant has a part for the mutexes, one for the order   *)
(* in which tokens are issued, one for what a caller in a request knows of *)
(* the keyring, one for the account that was removed, and one for the      *)
(* token the keyring keeps.  Each part is preserved given the others, and  *)
(* has a lemma of its own.                                                 *)
(***************************************************************************)
EXTENDS OAuth2Tokens, TLAPS

\* The mutex of an object and the thread that works for it know each other.
MutexOK ==
    /\ \A c \in Callers : call[c].pc # "idle" => call[c].object \in Objects
    /\ \A c \in Callers : Working(c) => lock[call[c].object] = c
    /\ \A o \in Objects : lock[o] # None => Working(lock[o]) /\ call[lock[o]].object = o

\* Nobody knows a token that was not issued yet.
TokensIssued ==
    /\ \A t \in valid : t <= issued
    /\ keyring # None => keyring.refresh <= issued
    /\ signin.token <= issued
    /\ \A c \in Callers : call[c].held <= issued /\ call[c].got <= issued

\* A token that was granted to a call and is not stored yet is known to nobody
\* else.
GotIsNew ==
    \A c \in Callers : call[c].got # NoToken =>
        /\ call[c].pc = "granted"
        /\ signin.token # call[c].got
        /\ keyring # None => keyring.refresh # call[c].got
        /\ \A d \in Callers : call[d].held # call[c].got
        /\ \A d \in Callers : d # c => call[d].got # call[c].got

\* A request uses the token of the keyring as long as nobody else writes it, and
\* a token that was refused does not become good again.
HeldIsKept ==
    \A c \in Callers :
        /\ InRequest(c) /\ ~call[c].overtaken /\ keyring # None => keyring.refresh = call[c].held
        /\ call[c].pc = "refused" => call[c].held \notin valid

\* After Remove has cleared it only those that were at the service then, or in
\* the dialog, may write the keyring.
RemovedOK ==
    removal = "cleared" /\ ~leftover =>
        /\ keyring = None /\ signin.pc = "idle"
        /\ \A c \in Callers : ~InRequest(c)

\* The service accepts the token of the keyring, or the call that has the one it
\* was replaced by has yet to store it; and a token granted is accepted.
GoodToken ==
    ~spoiled /\ signin.pc # "storing" =>
        /\ \A c \in Callers : call[c].got # NoToken /\ ~call[c].overtaken => call[c].got \in valid
        /\ removal # "cleared" => /\ keyring # None
                                  /\ keyring.refresh \in valid \/ \E c \in Callers : OnlyCopy(c)

Inv == TypeOK /\ MutexOK /\ TokensIssued /\ GotIsNew /\ HeldIsKept /\ RemovedOK /\ GoodToken

\* No token counts as one, of number 0.
LEMMA NoTokenIsToken == NoToken \in Token
  BY TokenAssumption DEF NoToken, Token

\* What the steps make of the record of a call is one.
LEMMA UpdatedCalls ==
    /\ Idle \in Call
    /\ \A o \in Objects : [Idle EXCEPT !.pc = "waiting", !.object = o] \in Call
    /\ \A x \in Call : /\ [x EXCEPT !.pc = "locked"] \in Call
                       /\ [x EXCEPT !.pc = "granted"] \in Call
                       /\ [x EXCEPT !.pc = "refused"] \in Call
                       /\ [x EXCEPT !.cancelled = TRUE] \in Call
                       /\ [x EXCEPT !.overtaken = TRUE] \in Call
                       /\ \A t \in Token : [x EXCEPT !.got = t] \in Call
                       /\ \A t \in Token : /\ [x EXCEPT !.pc = "asking", !.held = t] \in Call
                                           /\ [x EXCEPT !.pc = "granted", !.got = t] \in Call
  BY NoTokenIsToken DEF Idle, Call

\* Every step keeps the types.
LEMMA TypeNext ==
    ASSUME TypeOK, [Next]_vars
    PROVE  TypeOK'
<1> USE DEF TypeOK
<1>1. ASSUME NEW c \in Callers, Begin(c)
      PROVE  TypeOK'
  BY <1>1, UpdatedCalls DEF Begin
<1>2. ASSUME NEW c \in Callers, Lock(c)
      PROVE  TypeOK'
  BY <1>2, UpdatedCalls DEF Lock
<1>3. ASSUME NEW c \in Callers, LookupFails(c) \/ LookupAnswers(c) \/ RequestRefused(c) \/ RequestFails(c) \/ StoreFails(c)
      PROVE  TypeOK'
  BY <1>3, UpdatedCalls DEF LookupFails, Return, LookupAnswers, RequestRefused, RequestFails, StoreFails
<1>5. ASSUME NEW c \in Callers, LookupAsks(c)
      PROVE  TypeOK'
  BY <1>5, UpdatedCalls DEF LookupAsks, Entry
<1>8. ASSUME NEW c \in Callers, StoreCredentials(c)
      PROVE  TypeOK'
  <2>1. PICK f \in BOOLEAN : keyring' = NewEntry(c, f)
    BY <1>8 DEF StoreCredentials
  <2>2. call[c] \in Call /\ call[c].got \in Token /\ call[c].held \in Token
    BY DEF Call
  <2>3. keyring' \in Entry
    BY <2>1, <2>2 DEF NewEntry, Entry
  <2>4. call' \in [Callers -> Call]
    BY <1>8, UpdatedCalls DEF StoreCredentials
  <2>5. lock' \in [Objects -> Callers \cup {None}]
    BY <1>8 DEF StoreCredentials
  <2>6. spoiled' \in BOOLEAN
    BY <1>8, <2>2, Zenon DEF StoreCredentials, Call
  <2>7. QED
    BY <1>8, <2>3, <2>4, <2>5, <2>6 DEF StoreCredentials
<1>10. ASSUME NEW c \in Callers, Grant(c)
      PROVE  TypeOK'
  <2>1. issued < MaxToken => issued + 1 \in Token
    BY TokenAssumption DEF Token
  <2>2. issued' \in Token /\ valid' \subseteq Token
    BY <1>10, <2>1 DEF Grant
  <2>3. call' \in [Callers -> Call]
    <3>1. CASE call' = [call EXCEPT ![c].pc = "granted"]
      BY <3>1, UpdatedCalls
    <3>2. CASE call' = [call EXCEPT ![c].pc = "granted", ![c].got = issued']
      BY <2>2, <3>2, UpdatedCalls
    <3>3. QED
      BY <1>10, <3>1, <3>2 DEF Grant
  <2>4. QED
    BY <1>10, <2>2, <2>3 DEF Grant
<1>11. ASSUME NEW c \in Callers, Refuse(c)
      PROVE  TypeOK'
  BY <1>11, UpdatedCalls DEF Refuse
<1>12. CASE CancelCheck
  BY <1>12, UpdatedCalls DEF CancelCheck, Callers
<1>13. CASE Revoke \/ AccessTokenAges
  BY <1>13 DEF Revoke, AccessTokenAges, Entry
<1> DEFINE Signin == [pc : {"idle", "open", "storing"}, token : Token]
<1>14. CASE OpenDialog \/ SignInFails
  <2>1. signin' \in Signin
    BY <1>14, NoTokenIsToken DEF OpenDialog, SignInFails
  <2>2. spoiled' \in BOOLEAN
    BY <1>14 DEF OpenDialog, SignInFails
  <2>3. QED
    BY <1>14, <2>1, <2>2 DEF OpenDialog, SignInFails
<1>15. CASE Exchange
  <2>1. issued < MaxToken => issued + 1 \in Token
    BY TokenAssumption DEF Token
  <2>2. issued' \in Token /\ valid' \subseteq Token
    BY <1>15, <2>1 DEF Exchange
  <2>3. signin' \in Signin
    BY <1>15, <2>1, NoTokenIsToken DEF Exchange
  <2>4. QED
    BY <1>15, <2>2, <2>3 DEF Exchange
<1>16. CASE SignInStores
  <2>1. signin' \in Signin /\ keyring' \in Entry
    BY <1>16, NoTokenIsToken DEF SignInStores, Entry
  <2>2. call' \in [Callers -> Call]
    BY <1>16, UpdatedCalls DEF SignInStores
  <2>3. spoiled' \in BOOLEAN
    BY <1>16 DEF SignInStores
  <2>4. QED
    BY <1>16, <2>1, <2>2, <2>3 DEF SignInStores
<1>17. CASE Unexport \/ (\E o \in Objects : Export(o)) \/ Remove \/ RemoveClears \/ RemoveRefused
  BY <1>17 DEF Unexport, Export, Remove, RemoveClears, RemoveRefused
<1>18. CASE Kill
  BY <1>18, UpdatedCalls DEF Kill
<1>19. CASE UNCHANGED vars
  BY <1>19 DEF vars
<1>20. QED
  BY <1>1, <1>2, <1>3, <1>5, <1>8, <1>10, <1>11, <1>12, <1>13, <1>14, <1>15, <1>16, <1>17, <1>18, <1>19 DEF Next, Thread, Answers

\* A thread works for an object from the moment it locks its mutex until it
\* unlocks it.
LEMMA MutexNext ==
    ASSUME TypeOK, MutexOK, [Next]_vars
    PROVE  MutexOK'
<1> USE CallerAssumption, TokenAssumption DEF TypeOK, Call, MutexOK, Working, InRequest, Callers, Idle
<1>1. ASSUME NEW c \in Callers, Begin(c)
      PROVE  MutexOK'
  BY <1>1 DEF Begin
<1>2. ASSUME NEW c \in Callers, Lock(c)
      PROVE  MutexOK'
  BY <1>2 DEF Lock
<1>3. ASSUME NEW c \in Callers, LookupFails(c) \/ LookupAnswers(c)
      PROVE  MutexOK'
  BY <1>3 DEF LookupFails, LookupAnswers, Return
<1>4. ASSUME NEW c \in Callers, LookupAsks(c)
      PROVE  MutexOK'
  BY <1>4 DEF LookupAsks
<1>5. ASSUME NEW c \in Callers, RequestFails(c) \/ RequestRefused(c) \/ StoreFails(c)
      PROVE  MutexOK'
  BY <1>5 DEF RequestFails, RequestRefused, StoreFails, Return
<1>6. ASSUME NEW c \in Callers, StoreCredentials(c)
      PROVE  MutexOK'
  BY <1>6 DEF StoreCredentials, NewEntry
<1>7. ASSUME NEW c \in Callers, Grant(c)
      PROVE  MutexOK'
  BY <1>7 DEF Grant
<1>8. ASSUME NEW c \in Callers, Refuse(c)
      PROVE  MutexOK'
  BY <1>8 DEF Refuse
<1>9. CASE CancelCheck
  BY <1>9 DEF CancelCheck
<1>10. CASE Revoke
  BY <1>10 DEF Revoke
<1>11. CASE AccessTokenAges
  BY <1>11 DEF AccessTokenAges
<1>12. CASE OpenDialog \/ SignInFails
  BY <1>12 DEF OpenDialog, SignInFails
<1>13. CASE Exchange
  BY <1>13 DEF Exchange
<1>14. CASE SignInStores
  BY <1>14 DEF SignInStores
<1>15. CASE Unexport \/ (\E o \in Objects : Export(o))
  BY <1>15 DEF Unexport, Export
<1>16. CASE Remove \/ RemoveClears \/ RemoveRefused
  BY <1>16 DEF Remove, RemoveClears, RemoveRefused
<1>17. CASE Kill
  BY <1>17 DEF Kill
<1>18. CASE UNCHANGED vars
  BY <1>18 DEF vars
<1>19. QED
  BY <1>1, <1>2, <1>3, <1>4, <1>5, <1>6, <1>7, <1>8, <1>9, <1>10, <1>11, <1>12, <1>13,
     <1>14, <1>15, <1>16, <1>17, <1>18
     DEF Next, Thread, Answers

\* Tokens are numbered as they are issued.
LEMMA IssuedNext ==
    ASSUME TypeOK, TokensIssued, [Next]_vars
    PROVE  TokensIssued'
<1> USE CallerAssumption, TokenAssumption DEF TypeOK, Entry, Call, Token, NoToken, TokensIssued, Callers, Idle
<1>1. ASSUME NEW c \in Callers, Begin(c)
      PROVE  TokensIssued'
  BY <1>1 DEF Begin
<1>2. ASSUME NEW c \in Callers, Lock(c)
      PROVE  TokensIssued'
  BY <1>2 DEF Lock
<1>3. ASSUME NEW c \in Callers, LookupFails(c)
      PROVE  TokensIssued'
  BY <1>3 DEF LookupFails, Return
<1>4. ASSUME NEW c \in Callers, LookupAnswers(c)
      PROVE  TokensIssued'
  BY <1>4 DEF LookupAnswers, Return
<1>5. ASSUME NEW c \in Callers, LookupAsks(c)
      PROVE  TokensIssued'
  BY <1>5 DEF LookupAsks
<1>6. ASSUME NEW c \in Callers, RequestFails(c)
      PROVE  TokensIssued'
  BY <1>6 DEF RequestFails, Return
<1>7. ASSUME NEW c \in Callers, RequestRefused(c)
      PROVE  TokensIssued'
  BY <1>7 DEF RequestRefused, Return
<1>8. ASSUME NEW c \in Callers, StoreFails(c)
      PROVE  TokensIssued'
  BY <1>8 DEF StoreFails, Return
<1>9. ASSUME NEW c \in Callers, StoreCredentials(c)
      PROVE  TokensIssued'
  BY <1>9 DEF StoreCredentials, NewEntry
<1>10. ASSUME NEW c \in Callers, Grant(c)
      PROVE  TokensIssued'
  BY <1>10 DEF Grant
<1>11. ASSUME NEW c \in Callers, Refuse(c)
      PROVE  TokensIssued'
  BY <1>11 DEF Refuse
<1>12. CASE CancelCheck
  BY <1>12 DEF CancelCheck
<1>13. CASE Revoke
  BY <1>13 DEF Revoke
<1>14. CASE AccessTokenAges
  BY <1>14 DEF AccessTokenAges
<1>15. CASE OpenDialog
  BY <1>15 DEF OpenDialog
<1>16. CASE SignInFails
  BY <1>16 DEF SignInFails
<1>17. CASE Exchange
  <2>1. PICK others \in {valid, {}} :
           \/ /\ valid' = others /\ UNCHANGED issued
              /\ signin' = [pc |-> "storing", token |-> NoToken]
           \/ /\ issued < MaxToken /\ issued' = issued + 1
              /\ valid' = others \cup {issued'}
              /\ signin' = [pc |-> "storing", token |-> issued']
    BY <1>17 DEF Exchange
  <2>2. issued \in Nat /\ issued' \in Nat /\ issued <= issued'
    BY <2>1
  <2>3. ASSUME NEW t \in valid'
        PROVE  t <= issued'
    <3>1. others \subseteq valid
      OBVIOUS
    <3>2. valid' = others \/ valid' = others \cup {issued'}
      BY <2>1
    <3>3. t \in others \/ t = issued'
      BY <3>2
    <3>4. CASE t \in others
      <4>1. t \in Nat /\ t <= issued
        BY <3>1, <3>4
      <4>2. QED
        BY <2>2, <4>1
    <3>5. QED
      BY <2>2, <3>3, <3>4
  <2>4. signin'.token <= issued'
    BY <2>1, <2>2
  <2>5. (keyring # None => keyring.refresh <= issued)'
    BY <1>17, <2>2 DEF Exchange
  <2>6. (\A c \in Callers : call[c].held <= issued /\ call[c].got <= issued)'
    BY <1>17, <2>2 DEF Exchange
  <2>7. QED
    BY <2>3, <2>4, <2>5, <2>6
<1>18. CASE SignInStores
  BY <1>18 DEF SignInStores
<1>19. CASE Unexport
  BY <1>19 DEF Unexport
<1>20. CASE \E o \in Objects : Export(o)
  BY <1>20 DEF Export
<1>21. CASE Remove \/ RemoveClears \/ RemoveRefused
  BY <1>21 DEF Remove, RemoveClears, RemoveRefused
<1>22. CASE Kill
  BY <1>22 DEF Kill
<1>23. CASE UNCHANGED vars
  BY <1>23 DEF vars
<1>24. QED
  BY <1>1, <1>2, <1>3, <1>4, <1>5, <1>6, <1>7, <1>8, <1>9, <1>10, <1>11, <1>12, <1>13,
     <1>14, <1>15, <1>16, <1>17, <1>18, <1>19, <1>20, <1>21, <1>22, <1>23
     DEF Next, Thread, Answers

\* A token is issued once, to one call or to the sign-in.
LEMMA GotNext ==
    ASSUME TypeOK, TokensIssued, GotIsNew, [Next]_vars
    PROVE  GotIsNew'
<1> USE CallerAssumption, TokenAssumption DEF TypeOK, Entry, Call, Token, NoToken, TokensIssued, GotIsNew, Callers, Idle
<1>1. ASSUME NEW c \in Callers, Begin(c)
      PROVE  GotIsNew'
  BY <1>1 DEF Begin
<1>2. ASSUME NEW c \in Callers, Lock(c)
      PROVE  GotIsNew'
  BY <1>2 DEF Lock
<1>3. ASSUME NEW c \in Callers, LookupFails(c)
      PROVE  GotIsNew'
  BY <1>3 DEF LookupFails, Return
<1>4. ASSUME NEW c \in Callers, LookupAnswers(c)
      PROVE  GotIsNew'
  BY <1>4 DEF LookupAnswers, Return
<1>5. ASSUME NEW c \in Callers, LookupAsks(c)
      PROVE  GotIsNew'
  BY <1>5 DEF LookupAsks
<1>6. ASSUME NEW c \in Callers, RequestFails(c)
      PROVE  GotIsNew'
  BY <1>6 DEF RequestFails, Return
<1>7. ASSUME NEW c \in Callers, RequestRefused(c)
      PROVE  GotIsNew'
  BY <1>7 DEF RequestRefused, Return
<1>8. ASSUME NEW c \in Callers, StoreFails(c)
      PROVE  GotIsNew'
  BY <1>8 DEF StoreFails, Return
<1>9. ASSUME NEW c \in Callers, StoreCredentials(c)
      PROVE  GotIsNew'
  BY <1>9 DEF StoreCredentials, NewEntry
<1>10. ASSUME NEW c \in Callers, Grant(c)
      PROVE  GotIsNew'
  BY <1>10 DEF Grant
<1>11. ASSUME NEW c \in Callers, Refuse(c)
      PROVE  GotIsNew'
  BY <1>11 DEF Refuse
<1>12. CASE CancelCheck
  BY <1>12 DEF CancelCheck
<1>13. CASE Revoke
  BY <1>13 DEF Revoke
<1>14. CASE AccessTokenAges
  BY <1>14 DEF AccessTokenAges
<1>15. CASE OpenDialog
  BY <1>15 DEF OpenDialog
<1>16. CASE SignInFails
  BY <1>16 DEF SignInFails
<1>17. CASE Exchange
  BY <1>17 DEF Exchange
<1>18. CASE SignInStores
  BY <1>18 DEF SignInStores
<1>19. CASE Unexport
  BY <1>19 DEF Unexport
<1>20. CASE \E o \in Objects : Export(o)
  BY <1>20 DEF Export
<1>21. CASE Remove \/ RemoveClears \/ RemoveRefused
  BY <1>21 DEF Remove, RemoveClears, RemoveRefused
<1>22. CASE Kill
  BY <1>22 DEF Kill
<1>23. CASE UNCHANGED vars
  BY <1>23 DEF vars
<1>24. QED
  BY <1>1, <1>2, <1>3, <1>4, <1>5, <1>6, <1>7, <1>8, <1>9, <1>10, <1>11, <1>12, <1>13,
     <1>14, <1>15, <1>16, <1>17, <1>18, <1>19, <1>20, <1>21, <1>22, <1>23
     DEF Next, Thread, Answers

\* Who stores tokens while another call is in its request works for another
\* object, or is Settings, and overtakes it.
LEMMA HeldNext ==
    ASSUME TypeOK, MutexOK, TokensIssued, HeldIsKept, [Next]_vars
    PROVE  HeldIsKept'
<1> USE CallerAssumption, TokenAssumption DEF TypeOK, Entry, Call, Token, NoToken, MutexOK, Working, InRequest,
       TokensIssued, HeldIsKept, Callers, Idle
<1>1. ASSUME NEW c \in Callers, Begin(c)
      PROVE  HeldIsKept'
  BY <1>1 DEF Begin
<1>2. ASSUME NEW c \in Callers, Lock(c)
      PROVE  HeldIsKept'
  BY <1>2 DEF Lock
<1>3. ASSUME NEW c \in Callers, LookupFails(c)
      PROVE  HeldIsKept'
  BY <1>3 DEF LookupFails, Return
<1>4. ASSUME NEW c \in Callers, LookupAnswers(c)
      PROVE  HeldIsKept'
  BY <1>4 DEF LookupAnswers, Return
<1>5. ASSUME NEW c \in Callers, LookupAsks(c)
      PROVE  HeldIsKept'
  BY <1>5 DEF LookupAsks
<1>6. ASSUME NEW c \in Callers, RequestFails(c)
      PROVE  HeldIsKept'
  BY <1>6 DEF RequestFails, Return
<1>7. ASSUME NEW c \in Callers, RequestRefused(c)
      PROVE  HeldIsKept'
  BY <1>7 DEF RequestRefused, Return
<1>8. ASSUME NEW c \in Callers, StoreFails(c)
      PROVE  HeldIsKept'
  BY <1>8 DEF StoreFails, Return
<1>9. ASSUME NEW c \in Callers, StoreCredentials(c)
      PROVE  HeldIsKept'
  BY <1>9 DEF StoreCredentials, NewEntry
<1>10. ASSUME NEW c \in Callers, Grant(c)
      PROVE  HeldIsKept'
  BY <1>10 DEF Grant
<1>11. ASSUME NEW c \in Callers, Refuse(c)
      PROVE  HeldIsKept'
  BY <1>11 DEF Refuse
<1>12. CASE CancelCheck
  BY <1>12 DEF CancelCheck
<1>13. CASE Revoke
  BY <1>13 DEF Revoke
<1>14. CASE AccessTokenAges
  BY <1>14 DEF AccessTokenAges
<1>15. CASE OpenDialog
  BY <1>15 DEF OpenDialog
<1>16. CASE SignInFails
  BY <1>16 DEF SignInFails
<1>17. CASE Exchange
  BY <1>17 DEF Exchange
<1>18. CASE SignInStores
  BY <1>18 DEF SignInStores
<1>19. CASE Unexport
  BY <1>19 DEF Unexport
<1>20. CASE \E o \in Objects : Export(o)
  BY <1>20 DEF Export
<1>21. CASE Remove \/ RemoveClears \/ RemoveRefused
  BY <1>21 DEF Remove, RemoveClears, RemoveRefused
<1>22. CASE Kill
  BY <1>22 DEF Kill
<1>23. CASE UNCHANGED vars
  BY <1>23 DEF vars
<1>24. QED
  BY <1>1, <1>2, <1>3, <1>4, <1>5, <1>6, <1>7, <1>8, <1>9, <1>10, <1>11, <1>12, <1>13,
     <1>14, <1>15, <1>16, <1>17, <1>18, <1>19, <1>20, <1>21, <1>22, <1>23
     DEF Next, Thread, Answers

\* Without the object no call begins, and without the entry no request.
LEMMA RemovedNext ==
    ASSUME TypeOK, RemovedOK, [Next]_vars
    PROVE  RemovedOK'
<1> USE CallerAssumption, TokenAssumption DEF TypeOK, RemovedOK, InRequest, Callers, Idle, Call, Entry
<1>1. ASSUME NEW c \in Callers, Begin(c)
      PROVE  RemovedOK'
  BY <1>1 DEF Begin
<1>2. ASSUME NEW c \in Callers, Lock(c)
      PROVE  RemovedOK'
  BY <1>2 DEF Lock
<1>3. ASSUME NEW c \in Callers, LookupFails(c)
      PROVE  RemovedOK'
  BY <1>3 DEF LookupFails, Return
<1>4. ASSUME NEW c \in Callers, LookupAnswers(c)
      PROVE  RemovedOK'
  BY <1>4 DEF LookupAnswers, Return
<1>5. ASSUME NEW c \in Callers, LookupAsks(c)
      PROVE  RemovedOK'
  BY <1>5 DEF LookupAsks
<1>6. ASSUME NEW c \in Callers, RequestFails(c)
      PROVE  RemovedOK'
  BY <1>6 DEF RequestFails, Return
<1>7. ASSUME NEW c \in Callers, RequestRefused(c)
      PROVE  RemovedOK'
  BY <1>7 DEF RequestRefused, Return
<1>8. ASSUME NEW c \in Callers, StoreFails(c)
      PROVE  RemovedOK'
  BY <1>8 DEF StoreFails, Return
<1>9. ASSUME NEW c \in Callers, StoreCredentials(c)
      PROVE  RemovedOK'
  BY <1>9 DEF StoreCredentials, NewEntry
<1>10. ASSUME NEW c \in Callers, Grant(c)
      PROVE  RemovedOK'
  BY <1>10 DEF Grant
<1>11. ASSUME NEW c \in Callers, Refuse(c)
      PROVE  RemovedOK'
  BY <1>11 DEF Refuse
<1>12. CASE CancelCheck
  BY <1>12 DEF CancelCheck
<1>13. CASE Revoke
  BY <1>13 DEF Revoke
<1>14. CASE AccessTokenAges
  BY <1>14 DEF AccessTokenAges
<1>15. CASE OpenDialog
  BY <1>15 DEF OpenDialog
<1>16. CASE SignInFails
  BY <1>16 DEF SignInFails
<1>17. CASE Exchange
  BY <1>17 DEF Exchange
<1>18. CASE SignInStores
  BY <1>18 DEF SignInStores
<1>19. CASE Unexport
  BY <1>19 DEF Unexport
<1>20. CASE \E o \in Objects : Export(o)
  BY <1>20 DEF Export
<1>21. CASE Remove \/ RemoveClears \/ RemoveRefused
  BY <1>21 DEF Remove, RemoveClears, RemoveRefused
<1>22. CASE Kill
  BY <1>22 DEF Kill
<1>23. CASE UNCHANGED vars
  BY <1>23 DEF vars
<1>24. QED
  BY <1>1, <1>2, <1>3, <1>4, <1>5, <1>6, <1>7, <1>8, <1>9, <1>10, <1>11, <1>12, <1>13,
     <1>14, <1>15, <1>16, <1>17, <1>18, <1>19, <1>20, <1>21, <1>22, <1>23
     DEF Next, Thread, Answers

\* A token replaces the one of the keyring only at the service, by a call that is
\* then the only one to know it, and in the keyring, by that call.
LEMMA GoodNext ==
    ASSUME TypeOK, TokensIssued, GotIsNew, HeldIsKept, GoodToken, [Next]_vars
    PROVE  GoodToken'
<1> USE CallerAssumption, TokenAssumption DEF TypeOK, Entry, Call, Token, NoToken, InRequest, TokensIssued,
       GotIsNew, HeldIsKept, GoodToken, OnlyCopy, Callers, Idle
<1>1. ASSUME NEW c \in Callers, Begin(c)
      PROVE  GoodToken'
  BY <1>1 DEF Begin
<1>2. ASSUME NEW c \in Callers, Lock(c)
      PROVE  GoodToken'
  BY <1>2 DEF Lock
<1>3. ASSUME NEW c \in Callers, LookupFails(c)
      PROVE  GoodToken'
  BY <1>3 DEF LookupFails, Return
<1>4. ASSUME NEW c \in Callers, LookupAnswers(c)
      PROVE  GoodToken'
  BY <1>4 DEF LookupAnswers, Return
<1>5. ASSUME NEW c \in Callers, LookupAsks(c)
      PROVE  GoodToken'
  BY <1>5 DEF LookupAsks
<1>6. ASSUME NEW c \in Callers, RequestFails(c)
      PROVE  GoodToken'
  BY <1>6 DEF RequestFails, Return
<1>7. ASSUME NEW c \in Callers, RequestRefused(c)
      PROVE  GoodToken'
  BY <1>7 DEF RequestRefused, Return
<1>8. ASSUME NEW c \in Callers, StoreFails(c)
      PROVE  GoodToken'
  BY <1>8 DEF StoreFails, Return
<1>9. ASSUME NEW c \in Callers, StoreCredentials(c)
      PROVE  GoodToken'
  <2> SUFFICES ASSUME ~spoiled', signin'.pc # "storing"
               PROVE  /\ \A d \in Callers : call'[d].got # NoToken /\ ~call'[d].overtaken
                                            => call'[d].got \in valid'
                      /\ removal' # "cleared" => /\ keyring' # None
                                                 /\ \/ keyring'.refresh \in valid'
                                                    \/ \E d \in Callers : OnlyCopy(d)'
    OBVIOUS
  <2>1. PICK f \in BOOLEAN : keyring' = NewEntry(c, f)
    BY <1>9 DEF StoreCredentials
  <2>2. /\ ~spoiled /\ ~call[c].overtaken /\ call[c].pc = "granted" /\ call[c] \in Call
        /\ signin.pc # "storing" /\ removal' = removal /\ valid' = valid
    BY <1>9 DEF StoreCredentials
  <2>3. \A d \in Callers : call[d].got # NoToken /\ ~call[d].overtaken => call[d].got \in valid
    BY <2>2
  <2>4. ASSUME NEW d \in Callers, call'[d].got # NoToken, ~call'[d].overtaken
        PROVE  call'[d].got \in valid'
    <3>1. d # c
      BY <1>9, <2>4 DEF StoreCredentials
    <3>2. call'[d].got = call[d].got /\ (call[d].overtaken => call'[d].overtaken)
      BY <1>9, <3>1 DEF StoreCredentials
    <3>3. QED
      BY <2>2, <2>3, <2>4, <3>2
  <2>5. ASSUME removal' # "cleared"
        PROVE  /\ keyring' # None
               /\ keyring'.refresh \in valid' \/ \E d \in Callers : OnlyCopy(d)'
    <3>1. keyring # None /\ keyring.refresh = call[c].held
      BY <2>2, <2>5
    <3>2. keyring' # None
      BY <2>1, <3>1, EntryAssumption, <2>2 DEF NewEntry
    <3>3. CASE call[c].got # NoToken
      BY <2>1, <2>2, <2>3, <3>2, <3>3 DEF NewEntry
    <3>4. CASE call[c].got = NoToken
      <4>1. keyring'.refresh = keyring.refresh
        BY <2>1, <3>1, <3>4 DEF NewEntry
      <4>2. CASE keyring.refresh \in valid
        BY <2>2, <3>2, <4>1, <4>2
      <4>3. CASE keyring.refresh \notin valid
        <5>1. PICK d \in Callers : OnlyCopy(d)
          BY <2>2, <2>5, <4>3
        <5>2. d # c /\ call[d] \in Call
          BY <3>4, <5>1
        <5>3. call'[d].pc = call[d].pc /\ call'[d].got = call[d].got /\ call'[d].held = call[d].held
          BY <1>9, <5>2 DEF StoreCredentials
        <5>4. OnlyCopy(d)'
          BY <2>2, <3>2, <4>1, <5>1, <5>3
        <5>5. QED
          BY <3>2, <5>4
      <4>4. QED
        BY <4>2, <4>3
    <3>5. QED
      BY <3>3, <3>4
  <2>6. QED
    BY <2>4, <2>5
<1>10. ASSUME NEW c \in Callers, Grant(c)
      PROVE  GoodToken'
  BY <1>10 DEF Grant
<1>11. ASSUME NEW c \in Callers, Refuse(c)
      PROVE  GoodToken'
  BY <1>11 DEF Refuse
<1>12. CASE CancelCheck
  BY <1>12 DEF CancelCheck
<1>13. CASE Revoke
  BY <1>13 DEF Revoke
<1>14. CASE AccessTokenAges
  <2>1. keyring' # None <=> keyring # None
    BY <1>14, EntryAssumption DEF AccessTokenAges
  <2>2. keyring'.refresh = keyring.refresh
    BY <1>14 DEF AccessTokenAges
  <2>3. UNCHANGED <<removal, valid, call, signin, spoiled>>
    BY <1>14 DEF AccessTokenAges
  <2>4. \A c \in Callers : OnlyCopy(c)' <=> OnlyCopy(c)
    BY <2>1, <2>2, <2>3
  <2>5. QED
    BY <2>1, <2>2, <2>3, <2>4
<1>15. CASE OpenDialog
  BY <1>15 DEF OpenDialog
<1>16. CASE SignInFails
  <2>1. ~spoiled' => ~spoiled /\ signin.pc # "storing"
    BY <1>16 DEF SignInFails
  <2>2. UNCHANGED <<removal, keyring, valid, call>>
    BY <1>16 DEF SignInFails
  <2>3. \A c \in Callers : OnlyCopy(c)' <=> OnlyCopy(c)
    BY <2>2
  <2>4. QED
    BY <2>1, <2>2, <2>3
<1>17. CASE Exchange
  BY <1>17 DEF Exchange
<1>18. CASE SignInStores
  <2> SUFFICES ASSUME ~spoiled'
               PROVE  /\ \A c \in Callers : call'[c].got # NoToken => call'[c].overtaken
                      /\ keyring' # None /\ keyring'.refresh \in valid'
    OBVIOUS
  <2>1. signin.token \in valid /\ valid' = valid
    BY <1>18 DEF SignInStores
  <2>2. keyring' # None /\ keyring'.refresh = signin.token
    <3>1. keyring' = [refresh |-> signin.token, fresh |-> TRUE]
      BY <1>18 DEF SignInStores
    <3>2. signin.token \in Token
      OBVIOUS
    <3>3. keyring' \in Entry
      BY <3>1, <3>2
    <3>4. QED
      BY <3>1, <3>3, EntryAssumption
  <2>3. ASSUME NEW c \in Callers, call'[c].got # NoToken
        PROVE  call'[c].overtaken
    <3>1. call'[c] = IF InRequest(c) THEN [call[c] EXCEPT !.overtaken = TRUE] ELSE call[c]
      BY <1>18 DEF SignInStores
    <3>2. call[c] \in Call /\ call'[c].got = call[c].got
      BY <3>1
    <3>3. InRequest(c)
      BY <2>3, <3>2
    <3>4. QED
      BY <3>1, <3>2, <3>3
  <2>4. QED
    BY <2>1, <2>2, <2>3
<1>19. CASE Unexport
  BY <1>19 DEF Unexport
<1>20. CASE \E o \in Objects : Export(o)
  BY <1>20 DEF Export
<1>21. CASE Remove \/ RemoveClears \/ RemoveRefused
  BY <1>21 DEF Remove, RemoveClears, RemoveRefused
<1>22. CASE Kill
  BY <1>22 DEF Kill
<1>23. CASE UNCHANGED vars
  BY <1>23 DEF vars
<1>24. QED
  BY <1>1, <1>2, <1>3, <1>4, <1>5, <1>6, <1>7, <1>8, <1>9, <1>10, <1>11, <1>12, <1>13,
     <1>14, <1>15, <1>16, <1>17, <1>18, <1>19, <1>20, <1>21, <1>22, <1>23
     DEF Next, Thread, Answers

\* The account begins with a token the service accepts and nobody at work.
LEMMA InvInit ==
    ASSUME Init
    PROVE  Inv
<1> USE TokenAssumption DEF Init
<1>1. TypeOK
  <2>1. 1 \in Token /\ NoToken \in Token
    BY DEF Token, NoToken
  <2>2. /\ exported \in Objects \cup {None} /\ removal = "none"
        /\ spoiled \in BOOLEAN /\ leftover \in BOOLEAN
    OBVIOUS
  <2>3. keyring \in Entry /\ valid \subseteq Token /\ issued \in Token
    BY <2>1 DEF Entry
  <2>4. lock \in [Objects -> Callers \cup {None}] /\ call \in [Callers -> Call]
    BY UpdatedCalls
  <2>5. signin \in [pc : {"idle", "open", "storing"}, token : Token]
    BY <2>1
  <2>6. QED
    BY <2>2, <2>3, <2>4, <2>5 DEF TypeOK
<1>2. MutexOK
  BY CallerAssumption DEF MutexOK, Working, InRequest, Idle, Callers
<1>3. TokensIssued /\ GotIsNew
  BY DEF TokensIssued, GotIsNew, Idle, NoToken
<1>4. HeldIsKept
  BY DEF HeldIsKept, InRequest, Idle
<1>5. RemovedOK
  BY DEF RemovedOK
<1>6. GoodToken
  BY EntryAssumption DEF GoodToken, Idle, Entry, Token
<1>7. QED
  BY <1>1, <1>2, <1>3, <1>4, <1>5, <1>6 DEF Inv

\* The parts hold after a step if all of them held before it.
LEMMA InvNext ==
    ASSUME Inv, [Next]_vars
    PROVE  Inv'
  BY TypeNext, MutexNext, IssuedNext, GotNext, HeldNext, RemovedNext, GoodNext DEF Inv

\* The variables hold what their names say in every behaviour of the daemon,
\* Settings and the service.
THEOREM TokensTypeCorrect == Spec => []TypeOK
<1>1. Init => TypeOK
  BY InvInit DEF Inv
<1>2. TypeOK /\ [Next]_vars => TypeOK'
  BY TypeNext
<1>3. QED
  BY <1>1, <1>2, PTL DEF Spec

\* The inductive invariant holds in every behaviour.
THEOREM InvHolds == Spec => []Inv
<1>1. Init => Inv
  BY InvInit
<1>2. Inv /\ [Next]_vars => Inv'
  BY InvNext
<1>3. QED
  BY <1>1, <1>2, PTL DEF Spec

\* One object never has two requests at the service, however many callers
\* GetAccessToken has and however often the account leaves the bus and returns.
THEOREM OneRequest == Spec => []OneRequestPerObject
<1>1. Inv => OneRequestPerObject
  BY CallerAssumption DEF Inv, TypeOK, MutexOK, OneRequestPerObject, Working, InRequest, Callers
<1>2. QED
  BY <1>1, InvHolds, PTL

\* A refresh that nobody overtook is refused only when the token of the keyring
\* is worthless.
THEOREM RefusalsAreReal == Spec => []RefusalIsReal
<1>1. Inv => RefusalIsReal
  BY DEF Inv, HeldIsKept, RefusalIsReal, InRequest
<1>2. QED
  BY <1>1, InvHolds, PTL

\* The keyring keeps a token the service accepts, unless it was lost in one of
\* the ways TokenKept names.
THEOREM TokenStaysKept == Spec => []TokenKept
<1>1. Inv => TokenKept
  BY DEF Inv, GoodToken, TokenKept
<1>2. QED
  BY <1>1, InvHolds, PTL

\* Remove leaves no credentials behind, except those that were under way.
THEOREM NothingStaysAfterRemove == Spec => []NothingAfterRemove
<1>1. Inv => NothingAfterRemove
  BY DEF Inv, RemovedOK, NothingAfterRemove
<1>2. QED
  BY <1>1, InvHolds, PTL
=============================================================================
