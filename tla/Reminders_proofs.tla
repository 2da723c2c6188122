-------------------------- MODULE Reminders_proofs --------------------------
(***************************************************************************)
(* Proofs about the reminders model, and about the notification screen     *)
(* that is its client, for any sets of names, blocks and times.            *)
(***************************************************************************)
EXTENDS RemindersRefinement, RemindersView, SeqLemmas, FiniteSetTheorems

(* While users are gone and reminders are still being freed there is no    *)
(* user, and no tick is running.                                           *)
ClosingShape == closing => tick = 0 /\ DOMAIN user = {}

(* The inductive invariant about the heap and the lists.                   *)
HeapInv ==
  /\ TypeOK
  /\ NoDanglingPointers
  /\ NoLeak
  /\ ListsAgree
  /\ ClosingShape

LEMMA HeapInit == Init => HeapInv
<1> SUFFICES ASSUME Init PROVE HeapInv
  OBVIOUS
<1>1. /\ users_list = << >> /\ reminders_list = << >>
      /\ DOMAIN user = {} /\ DOMAIN reminder = {}
      /\ tick = 0 /\ closing = FALSE
  BY DEF Init, NoBlocks
<1>2. Len(<< >>) = 0 /\ DOMAIN << >> = {}
  OBVIOUS
<1>3. TypeOK
  <2>1. user \in [DOMAIN user -> user_t] /\ reminder \in [DOMAIN reminder -> reminder_t]
    BY DEF Init, NoBlocks
  <2>2. << >> \in Seq(UserBlock) /\ << >> \in Seq(ReminderBlock)
    BY EmptySeq
  <2>3. tick \in 0 .. Len(reminders_list) + 1
    BY <1>1, <1>2
  <2>4. closing \in BOOLEAN
    BY <1>1
  <2>5. QED
    BY <1>1, <2>1, <2>2, <2>3, <2>4 DEF TypeOK
<1>4. NoDanglingPointers /\ NoLeak /\ ListsAgree /\ ClosingShape
  BY <1>1, <1>2 DEF NoDanglingPointers, NoLeak, ListsAgree, ClosingShape, Range, IsInjective
<1>5. QED
  BY <1>3, <1>4 DEF HeapInv

(* A block that malloc returns is in no list.                              *)
LEMMA FreshBlock ==
  ASSUME HeapInv
  PROVE  /\ \A u \in UserBlock \ DOMAIN user : u \notin Range(users_list)
         /\ \A r \in ReminderBlock \ DOMAIN reminder :
              /\ r \notin Range(reminders_list)
              /\ \A u \in DOMAIN user : r \notin Range(user[u].notifications_list)
BY DEF HeapInv, NoDanglingPointers

(* What an entry of users_list stands for.                                 *)
LEMMA EntryIsUser ==
  ASSUME HeapInv, NEW i \in DOMAIN users_list
  PROVE  /\ users_list[i] \in DOMAIN user /\ users_list[i] \in UserBlock
         /\ i \in 1 .. Len(users_list)
         /\ user[users_list[i]] \in user_t
         /\ user[users_list[i]].notifications_list \in Seq(ReminderBlock)
         /\ IsInjective(user[users_list[i]].notifications_list)
<1>1. users_list[i] \in Range(users_list)
  BY DEF Range
<1>2. users_list[i] \in DOMAIN user
  BY <1>1 DEF HeapInv, NoDanglingPointers
<1>3. i \in 1 .. Len(users_list)
  BY LenProperties DEF HeapInv, TypeOK
<1>4. user[users_list[i]] \in user_t
  BY <1>2 DEF HeapInv, TypeOK
<1>5. QED
  BY <1>2, <1>3, <1>4 DEF HeapInv, TypeOK, user_t, ListsAgree

LEMMA AddNewUserHeap ==
  ASSUME HeapInv, NEW name \in UserName, AddNewUser(name)
  PROVE  HeapInv'
<1> USE DEF HeapInv
<1>1. CASE UNCHANGED <<users_list, user>>
  BY <1>1 DEF AddNewUser, TypeOK, NoDanglingPointers, NoLeak, ListsAgree, ClosingShape
<1>2. ASSUME NEW u \in UserBlock \ DOMAIN user,
             user' = Put(user, u, [user_name |-> name, notifications_list |-> << >>]),
             users_list' = Append(users_list, u)
      PROVE  HeapInv'
  <2>1. /\ UNCHANGED <<reminders_list, reminder, tick, closing>> /\ ~closing /\ tick = 0
    BY DEF AddNewUser, Idle
  <2>2. /\ DOMAIN user' = DOMAIN user \cup {u}
        /\ user'[u] = [user_name |-> name, notifications_list |-> << >>]
        /\ \A v \in DOMAIN user : user'[v] = user[v]
    BY <1>2 DEF Put
  <2>3. user'[u].notifications_list = << >> /\ Range(<< >>) = {} /\ IsInjective(<< >>)
    BY <2>2 DEF Range, IsInjective
  <2>4. user'[u] \in user_t
    BY <2>2, EmptySeq DEF user_t
  <2>5. /\ users_list' \in Seq(UserBlock)
        /\ Range(users_list') = Range(users_list) \cup {u}
        /\ IsInjective(users_list')
    BY <1>2, FreshBlock, AppendRange, AppendProperties DEF TypeOK, ListsAgree
  <2>6. TypeOK'
    <3>1. user' \in [DOMAIN user' -> user_t]
      <4>1. \A v \in DOMAIN user' : user'[v] \in user_t
        BY <2>2, <2>4 DEF TypeOK
      <4>2. user' = [v \in DOMAIN user' |-> user'[v]]
        BY <1>2 DEF Put
      <4>3. QED
        BY <4>1, <4>2
    <3>2. QED
      BY <2>1, <2>2, <2>5, <3>1 DEF TypeOK
  <2>7. NoDanglingPointers' /\ NoLeak'
    BY <2>1, <2>2, <2>3, <2>5 DEF NoDanglingPointers, NoLeak
  <2>8. ListsAgree'
    <3>1. \A r \in DOMAIN reminder : reminder[r].belongs_to # u
      BY <1>2, <2>1 DEF NoDanglingPointers
    <3>2. ASSUME NEW v \in DOMAIN user'
          PROVE  /\ IsInjective(user'[v].notifications_list)
                 /\ \A r \in DOMAIN reminder :
                      reminder[r].belongs_to = v <=> r \in Range(user'[v].notifications_list)
      BY <2>2, <2>3, <3>1 DEF ListsAgree
    <3>3. QED
      BY <2>1, <2>5, <3>2 DEF ListsAgree
  <2>9. QED
    BY <2>1, <2>6, <2>7, <2>8 DEF ClosingShape
<1>3. QED
  BY <1>1, <1>2 DEF AddNewUser

(* What freeing a block leaves of the heap.                                *)
LEMMA DropRange ==
  ASSUME NEW f, NEW x, NEW T, f \in [DOMAIN f -> T]
  PROVE  /\ DOMAIN Drop(f, x) = DOMAIN f \ {x}
         /\ \A y \in DOMAIN f \ {x} : Drop(f, x)[y] = f[y]
         /\ Drop(f, x) \in [DOMAIN Drop(f, x) -> T]
BY DEF Drop

LEMMA AddUserReminderHeap ==
  ASSUME HeapInv, NEW name \in UserName, NEW t \in Times, AddUserReminder(name, t)
  PROVE  HeapInv'
<1> USE DEF HeapInv
<1>1. CASE UNCHANGED <<reminders_list, user, reminder>>
  BY <1>1 DEF AddUserReminder, TypeOK, NoDanglingPointers, NoLeak, ListsAgree, ClosingShape
<1>2. ASSUME NEW i \in DOMAIN users_list, NEW r \in ReminderBlock \ DOMAIN reminder,
             NEW k \in 1 .. Len(reminders_list) + 1,
             user' = [user EXCEPT ![users_list[i]].notifications_list = Append(@, r)],
             reminders_list' = InsertAt(reminders_list, k, r),
             reminder' = Put(reminder, r, [belongs_to |-> users_list[i], ellapse_time |-> t])
      PROVE  HeapInv'
  <2> DEFINE u == users_list[i]
             n == user[u].notifications_list
  <2>1. /\ UNCHANGED <<users_list, tick, closing>> /\ closing = FALSE /\ tick = 0
    BY DEF AddUserReminder, Idle, TypeOK
  <2>2. /\ u \in DOMAIN user /\ u \in UserBlock /\ user[u] \in user_t
        /\ n \in Seq(ReminderBlock) /\ IsInjective(n)
    BY EntryIsUser
  <2>3. /\ DOMAIN user' = DOMAIN user
        /\ user'[u].notifications_list = Append(n, r)
        /\ user'[u].user_name = user[u].user_name
        /\ \A v \in DOMAIN user \ {u} : user'[v] = user[v]
    BY <1>2, <2>2 DEF user_t
  <2>4. /\ r \notin Range(n)
        /\ Append(n, r) \in Seq(ReminderBlock)
        /\ Range(Append(n, r)) = Range(n) \cup {r}
        /\ IsInjective(Append(n, r))
    <3>1. r \notin Range(n)
      BY <2>2, FreshBlock
    <3>2. QED
      BY <2>2, <3>1, AppendRange, AppendProperties
  <2>5. /\ reminders_list' \in Seq(ReminderBlock)
        /\ Len(reminders_list') = Len(reminders_list) + 1
        /\ Range(reminders_list') = Range(reminders_list) \cup {r}
        /\ IsInjective(reminders_list')
    BY <1>2, FreshBlock, InsertAtElements, InsertAtRange DEF TypeOK, ListsAgree
  <2>6. [belongs_to |-> u, ellapse_time |-> t] \in reminder_t
    BY <2>2, RemindersAssumption DEF reminder_t
  <2>7. /\ DOMAIN reminder' = DOMAIN reminder \cup {r}
        /\ reminder'[r] = [belongs_to |-> u, ellapse_time |-> t]
        /\ \A q \in DOMAIN reminder : reminder'[q] = reminder[q]
        /\ reminder' \in [DOMAIN reminder' -> reminder_t]
    <3> DEFINE b == [belongs_to |-> u, ellapse_time |-> t]
    <3>1. reminder \in [DOMAIN reminder -> reminder_t] /\ b \in reminder_t
      BY <2>6 DEF TypeOK
    <3>2. reminder' = Put(reminder, r, b) /\ r \notin DOMAIN reminder
      BY <1>2
    <3> HIDE DEF b
    <3>3. /\ DOMAIN reminder' = DOMAIN reminder \cup {r}
          /\ reminder'[r] = b
          /\ \A q \in DOMAIN reminder : reminder'[q] = reminder[q]
      BY <3>2 DEF Put
    <3>4. reminder' \in [DOMAIN reminder' -> reminder_t]
      BY <3>1, <3>2 DEF Put
    <3>5. QED
      BY <3>3, <3>4 DEF b
  <2>8. user' \in [DOMAIN user' -> user_t]
    <3>1. [user[u] EXCEPT !.notifications_list = Append(n, r)] \in user_t
      BY <2>2, <2>4 DEF user_t
    <3>2. user' = [user EXCEPT ![u] = [user[u] EXCEPT !.notifications_list = Append(n, r)]]
      BY <1>2
    <3>3. QED
      BY <2>2, <3>1, <3>2 DEF TypeOK
  <2>9. TypeOK'
    <3>1. tick' \in 0 .. Len(reminders_list') + 1
      BY <2>1, <2>5, LenProperties DEF TypeOK
    <3>2. DOMAIN user' \subseteq UserBlock /\ DOMAIN reminder' \subseteq ReminderBlock
      BY <2>3, <2>7 DEF TypeOK
    <3>3. QED
      BY <2>1, <2>5, <2>7, <2>8, <3>1, <3>2 DEF TypeOK
  <2> HIDE DEF u, n
  <2>10. NoDanglingPointers'
    <3>1. \A v \in DOMAIN user' : Range(user'[v].notifications_list) \subseteq DOMAIN reminder'
      BY <2>3, <2>4, <2>7 DEF NoDanglingPointers, n
    <3>2. \A q \in DOMAIN reminder' : reminder'[q].belongs_to \in DOMAIN user'
      BY <2>1, <2>2, <2>3, <2>7 DEF NoDanglingPointers
    <3>3. QED
      BY <2>1, <2>3, <2>5, <2>7, <3>1, <3>2 DEF NoDanglingPointers
  <2>11. NoLeak'
    BY <2>1, <2>3, <2>5, <2>7 DEF NoLeak
  <2>12. ListsAgree'
    <3>1. ASSUME NEW v \in DOMAIN user'
          PROVE  /\ IsInjective(user'[v].notifications_list)
                 /\ \A q \in DOMAIN reminder' :
                      reminder'[q].belongs_to = v <=> q \in Range(user'[v].notifications_list)
      <4>1. CASE v = u
        <5>1. user'[v].notifications_list = Append(n, r)
          BY <2>3, <4>1
        <5>2. \A q \in DOMAIN reminder : reminder[q].belongs_to = u <=> q \in Range(n)
          BY <2>2 DEF ListsAgree, n
        <5>3. \A q \in DOMAIN reminder : reminder'[q].belongs_to = v <=> q \in Range(n) \cup {r}
          BY <1>2, <2>7, <4>1, <5>2
        <5>4. reminder'[r].belongs_to = v
          BY <2>7, <4>1
        <5>5. QED
          BY <2>4, <2>7, <5>1, <5>3, <5>4
      <4>2. CASE v # u
        <5>1. r \notin Range(user[v].notifications_list)
          BY <2>3, FreshBlock
        <5>2. QED
          BY <2>3, <2>7, <4>2, <5>1 DEF ListsAgree
      <4>3. QED
        BY <4>1, <4>2
    <3>2. QED
      BY <2>1, <2>5, <3>1 DEF ListsAgree
  <2>13. QED
    BY <2>1, <2>9, <2>10, <2>11, <2>12 DEF ClosingShape
<1>3. QED
  BY <1>1, <1>2 DEF AddUserReminder

LEMMA RemoveUserHeap ==
  ASSUME HeapInv, NEW name \in UserName, ClientRemovesUser(name)
  PROVE  HeapInv'
<1> USE DEF HeapInv
<1>1. CASE UNCHANGED <<users_list, user>>
  BY <1>1 DEF ClientRemovesUser, RemoveUser, TypeOK, NoDanglingPointers, NoLeak, ListsAgree, ClosingShape
<1>2. ASSUME NEW i \in DOMAIN users_list, FindUserEntry(i, name),
             users_list' = RemoveAt(users_list, i),
             user' = Drop(user, users_list[i])
      PROVE  HeapInv'
  <2> DEFINE u == users_list[i]
  <2>1. /\ UNCHANGED <<reminders_list, reminder, tick, closing>> /\ tick = 0 /\ closing = FALSE
    BY DEF ClientRemovesUser, RemoveUser, Idle, TypeOK
  <2>2. u \in DOMAIN user /\ i \in 1 .. Len(users_list)
    BY EntryIsUser
  <2>3. user[u].notifications_list = << >>
    BY <1>2 DEF ClientRemovesUser
  <2>4. /\ DOMAIN user' = DOMAIN user \ {u}
        /\ \A v \in DOMAIN user \ {u} : user'[v] = user[v]
        /\ user' \in [DOMAIN user' -> user_t]
    BY <1>2, DropRange DEF TypeOK
  <2>5. /\ users_list' \in Seq(UserBlock)
        /\ Range(users_list') = Range(users_list) \ {u}
        /\ IsInjective(users_list')
    BY <1>2, <2>2, RemoveAtElements, RemoveAtRange DEF TypeOK, ListsAgree
  <2>6. \A r \in DOMAIN reminder : reminder[r].belongs_to # u
    BY <2>2, <2>3 DEF ListsAgree, Range
  <2> HIDE DEF u
  <2>7. TypeOK'
    BY <2>1, <2>4, <2>5 DEF TypeOK
  <2>8. NoDanglingPointers' /\ NoLeak'
    BY <2>1, <2>4, <2>5, <2>6 DEF NoDanglingPointers, NoLeak
  <2>9. ListsAgree'
    BY <2>1, <2>4, <2>5 DEF ListsAgree
  <2>10. QED
    BY <2>1, <2>7, <2>8, <2>9 DEF ClosingShape
<1>3. QED
  BY <1>1, <1>2 DEF ClientRemovesUser, RemoveUser

(* Unlinking a reminder from both its lists and freeing it, as             *)
(* remove_user_notification and handle_reminder_expired do.                *)
LEMMA UnlinkHeap ==
  ASSUME HeapInv, ~closing, NEW u \in DOMAIN user,
         NEW p \in 1 .. Len(reminders_list),
         NEW k \in 1 .. Len(user[u].notifications_list),
         user[u].notifications_list[k] = reminders_list[p],
         user' = [user EXCEPT ![u].notifications_list = RemoveAt(@, k)],
         reminders_list' = RemoveAt(reminders_list, p),
         reminder' = Drop(reminder, reminders_list[p]),
         UNCHANGED <<users_list, tick, closing>>, tick \in 0 .. Len(reminders_list)
  PROVE  HeapInv'
<1> USE DEF HeapInv
<1> DEFINE r == reminders_list[p]
           n == user[u].notifications_list
<1>1. user[u] \in user_t /\ n \in Seq(ReminderBlock) /\ IsInjective(n)
  BY DEF TypeOK, user_t, ListsAgree
<1>2. r \in DOMAIN reminder
  <2>1. r \in Range(reminders_list)
    BY LenProperties DEF TypeOK, Range
  <2>2. QED
    BY <2>1 DEF NoDanglingPointers
<1>3. /\ RemoveAt(n, k) \in Seq(ReminderBlock)
      /\ Range(RemoveAt(n, k)) = Range(n) \ {r}
      /\ IsInjective(RemoveAt(n, k))
  BY <1>1, RemoveAtElements, RemoveAtRange
<1>4. /\ DOMAIN user' = DOMAIN user
      /\ user'[u].notifications_list = RemoveAt(n, k)
      /\ \A v \in DOMAIN user \ {u} : user'[v] = user[v]
      /\ user' \in [DOMAIN user' -> user_t]
  <2> DEFINE w == [user[u] EXCEPT !.notifications_list = RemoveAt(n, k)]
  <2>1. w \in user_t /\ w.notifications_list = RemoveAt(n, k)
    BY <1>1, <1>3 DEF user_t
  <2>2. user' = [user EXCEPT ![u] = w]
    OBVIOUS
  <2> HIDE DEF w
  <2>3. QED
    BY <2>1, <2>2 DEF TypeOK
<1>5. /\ reminders_list' \in Seq(ReminderBlock)
      /\ Len(reminders_list') = Len(reminders_list) - 1
      /\ Range(reminders_list') = Range(reminders_list) \ {r}
      /\ IsInjective(reminders_list')
  BY RemoveAtElements, RemoveAtRange DEF TypeOK, ListsAgree
<1>6. /\ DOMAIN reminder' = DOMAIN reminder \ {r}
      /\ \A q \in DOMAIN reminder \ {r} : reminder'[q] = reminder[q]
      /\ reminder' \in [DOMAIN reminder' -> reminder_t]
  BY DropRange DEF TypeOK
<1>7. \A v \in DOMAIN user : v # u => r \notin Range(user[v].notifications_list)
  <2>1. r \in Range(n)
    BY <1>1, LenProperties DEF Range
  <2>2. QED
    BY <1>2, <2>1 DEF ListsAgree
<1>8. tick' \in 0 .. Len(reminders_list') + 1
  BY <1>5, LenProperties DEF TypeOK
<1> HIDE DEF r, n
<1>9. TypeOK'
  BY <1>4, <1>5, <1>6, <1>8 DEF TypeOK
<1>10. \A v \in DOMAIN user' :
         /\ Range(user'[v].notifications_list) = Range(user[v].notifications_list) \ {r}
         /\ IsInjective(user'[v].notifications_list)
  <2>1. SUFFICES ASSUME NEW v \in DOMAIN user'
                 PROVE  /\ Range(user'[v].notifications_list)
                              = Range(user[v].notifications_list) \ {r}
                        /\ IsInjective(user'[v].notifications_list)
    OBVIOUS
  <2>2. CASE v = u
    BY <1>3, <1>4, <2>2 DEF n
  <2>3. CASE v # u
    BY <1>4, <1>7, <2>1, <2>3 DEF ListsAgree
  <2>4. QED
    BY <2>2, <2>3
<1>11. NoDanglingPointers'
  <2>1. \A q \in DOMAIN reminder' : reminder'[q].belongs_to \in DOMAIN user'
    BY <1>4, <1>6 DEF NoDanglingPointers
  <2>2. ASSUME NEW v \in DOMAIN user'
        PROVE  Range(user'[v].notifications_list) \subseteq DOMAIN reminder'
    <3>1. Range(user[v].notifications_list) \subseteq DOMAIN reminder
      BY <1>4 DEF NoDanglingPointers
    <3>2. Range(user'[v].notifications_list) = Range(user[v].notifications_list) \ {r}
      BY <1>10
    <3>3. QED
      BY <1>6, <3>1, <3>2
  <2>3. QED
    BY <1>4, <1>5, <1>6, <2>1, <2>2 DEF NoDanglingPointers
<1>12. NoLeak'
  BY <1>4, <1>5, <1>6 DEF NoLeak
<1>13. ListsAgree'
  <2>1. ASSUME NEW v \in DOMAIN user', NEW q \in DOMAIN reminder'
        PROVE  reminder'[q].belongs_to = v <=> q \in Range(user'[v].notifications_list)
    <3>1. v \in DOMAIN user /\ q \in DOMAIN reminder /\ q # r
      BY <1>4, <1>6
    <3>2. reminder[q].belongs_to = v <=> q \in Range(user[v].notifications_list)
      BY <3>1 DEF ListsAgree
    <3>3. Range(user'[v].notifications_list) = Range(user[v].notifications_list) \ {r}
      BY <1>10
    <3>4. reminder'[q] = reminder[q]
      BY <1>6
    <3>5. QED
      BY <3>1, <3>2, <3>3, <3>4
  <2>2. QED
    BY <1>5, <1>10, <2>1 DEF ListsAgree
<1>14. QED
  BY <1>9, <1>11, <1>12, <1>13 DEF ClosingShape

LEMMA RemoveUserNotificationHeap ==
  ASSUME HeapInv, NEW name \in UserName, NEW number, RemoveUserNotification(name, number)
  PROVE  HeapInv'
<1>1. CASE UNCHANGED <<reminders_list, user, reminder>>
  BY <1>1 DEF HeapInv, RemoveUserNotification, TypeOK, NoDanglingPointers, NoLeak, ListsAgree,
              ClosingShape
<1>2. ASSUME NEW i \in DOMAIN users_list, NEW p \in DOMAIN reminders_list,
             number \in DOMAIN user[users_list[i]].notifications_list,
             reminders_list[p] = user[users_list[i]].notifications_list[number],
             user' = Unlinked(users_list[i], reminders_list[p]),
             reminders_list' = RemoveAt(reminders_list, p),
             reminder' = Drop(reminder, reminders_list[p])
      PROVE  HeapInv'
  <2>1. /\ UNCHANGED <<users_list, tick, closing>> /\ tick = 0 /\ ~closing
    BY DEF RemoveUserNotification, Idle
  <2>2. /\ users_list[i] \in DOMAIN user
        /\ number \in 1 .. Len(user[users_list[i]].notifications_list)
    BY <1>2, EntryIsUser, LenProperties
  <2>3. p \in 1 .. Len(reminders_list) /\ tick \in 0 .. Len(reminders_list)
    BY <2>1, LenProperties DEF HeapInv, TypeOK
  <2>4. user' = [user EXCEPT ![users_list[i]].notifications_list = RemoveAt(@, number)]
    <3> DEFINE n == user[users_list[i]].notifications_list
    <3>1. RemoveFirst(n, reminders_list[p]) = RemoveAt(n, number)
      BY <1>2, <2>2, EntryIsUser, RemoveFirstIsRemoveAt
    <3>2. QED
      BY <1>2, <3>1 DEF Unlinked
  <2>5. QED
    BY <1>2, <2>1, <2>2, <2>3, <2>4, UnlinkHeap
<1>3. QED
  BY <1>1, <1>2 DEF RemoveUserNotification

LEMMA ExpireHeap ==
  ASSUME HeapInv, Expire
  PROVE  HeapInv'
<1> DEFINE r == reminders_list[tick]
           u == reminder[r].belongs_to
           n == user[u].notifications_list
<1>1. /\ tick \in 1 .. Len(reminders_list) /\ tick \in 0 .. Len(reminders_list)
      /\ r \in DOMAIN reminder
      /\ reminders_list' = RemoveAt(reminders_list, tick)
      /\ user' = [user EXCEPT ![u].notifications_list = RemoveFirst(@, r)]
      /\ reminder' = Drop(reminder, r)
      /\ UNCHANGED <<users_list, tick, closing>>
  <2>1. tick \in 1 .. Len(reminders_list) /\ Len(reminders_list) \in Nat
    BY LenProperties DEF HeapInv, TypeOK, Expire
  <2>2. r \in Range(reminders_list)
    BY DEF Range, Expire
  <2>3. QED
    BY <2>1, <2>2 DEF HeapInv, NoDanglingPointers, Expire, Unlinked
<1>2. ~closing
  BY <1>1 DEF HeapInv, ClosingShape
<1>3. u \in DOMAIN user
  BY <1>1, <1>2 DEF HeapInv, NoDanglingPointers
<1>4. n \in Seq(ReminderBlock) /\ IsInjective(n) /\ r \in Range(n)
  BY <1>1, <1>3 DEF HeapInv, TypeOK, user_t, ListsAgree
<1>5. PICK k \in 1 .. Len(n) : n[k] = r
  BY <1>4, LenProperties DEF Range
<1>6. RemoveFirst(n, r) = RemoveAt(n, k)
  BY <1>4, <1>5, RemoveFirstIsRemoveAt
<1>7. user' = [user EXCEPT ![u].notifications_list = RemoveAt(@, k)]
  BY <1>1, <1>3, <1>6
<1> HIDE DEF u
<1>8. QED
  BY <1>1, <1>2, <1>3, <1>5, <1>7, UnlinkHeap

LEMMA CountDownHeap ==
  ASSUME HeapInv, CountDown
  PROVE  HeapInv'
<1> DEFINE r == reminders_list[tick]
<1> USE DEF HeapInv
<1>1. /\ tick \in 1 .. Len(reminders_list) /\ Len(reminders_list) \in Nat
      /\ r \in DOMAIN reminder /\ reminder[r] \in reminder_t
      /\ reminder' = [reminder EXCEPT ![r].ellapse_time = @ - 1]
      /\ tick' = tick + 1
      /\ UNCHANGED <<users_list, reminders_list, user, closing>>
  <2>1. tick \in 1 .. Len(reminders_list) /\ Len(reminders_list) \in Nat
    BY LenProperties DEF TypeOK, CountDown
  <2>2. r \in Range(reminders_list)
    BY DEF Range, CountDown
  <2>3. QED
    BY <2>1, <2>2 DEF NoDanglingPointers, CountDown, TypeOK
<1>2. /\ DOMAIN reminder' = DOMAIN reminder
      /\ \A q \in DOMAIN reminder : reminder'[q].belongs_to = reminder[q].belongs_to
      /\ reminder' \in [DOMAIN reminder' -> reminder_t]
  <2> DEFINE w == [reminder[r] EXCEPT !.ellapse_time = @ - 1]
  <2>1. w \in reminder_t /\ w.belongs_to = reminder[r].belongs_to
    BY <1>1 DEF reminder_t
  <2>2. reminder' = [reminder EXCEPT ![r] = w]
    BY <1>1
  <2> HIDE DEF w
  <2>3. QED
    BY <1>1, <2>1, <2>2 DEF TypeOK
<1>3. ~closing
  BY <1>1 DEF ClosingShape
<1>4. TypeOK'
  BY <1>1, <1>2 DEF TypeOK
<1>5. NoDanglingPointers' /\ NoLeak' /\ ListsAgree'
  BY <1>1, <1>2 DEF NoDanglingPointers, NoLeak, ListsAgree
<1>6. QED
  BY <1>1, <1>3, <1>4, <1>5 DEF ClosingShape

LEMMA OtherStepsHeap ==
  ASSUME HeapInv, TickStart \/ TickEnd \/ CleanupUsers \/ CleanupReminders \/ UNCHANGED vars
  PROVE  HeapInv'
<1> USE DEF HeapInv
<1>1. CASE TickStart \/ TickEnd \/ UNCHANGED vars
  <2>1. /\ UNCHANGED <<users_list, reminders_list, user, reminder, closing>>
        /\ tick' \in 0 .. Len(reminders_list) + 1
        /\ closing => tick' = 0
    <3>1. Len(reminders_list) \in Nat
      BY LenProperties DEF TypeOK
    <3>2. QED
      BY <1>1, <3>1 DEF TickStart, TickEnd, vars, Idle, TypeOK, ClosingShape
  <2>2. QED
    BY <2>1 DEF TypeOK, NoDanglingPointers, NoLeak, ListsAgree, ClosingShape
<1>2. CASE CleanupUsers
  <2>1. /\ users_list' = << >> /\ DOMAIN user' = {} /\ user' \in [DOMAIN user' -> user_t]
        /\ closing' = TRUE /\ tick = 0
        /\ UNCHANGED <<reminders_list, reminder, tick>>
    BY <1>2 DEF CleanupUsers, Idle, NoBlocks
  <2>2. users_list' \in Seq(UserBlock) /\ Range(users_list') = {} /\ IsInjective(users_list')
    BY <2>1, EmptySeq DEF Range, IsInjective
  <2>3. closing' \in BOOLEAN /\ closing'
    BY <2>1
  <2>4. TypeOK'
    BY <2>1, <2>2, <2>3 DEF TypeOK
  <2>5. QED
    BY <2>1, <2>2, <2>3, <2>4 DEF NoDanglingPointers, NoLeak, ListsAgree, ClosingShape
<1>3. CASE CleanupReminders
  <2>1. /\ reminders_list' = << >> /\ DOMAIN reminder' = {}
        /\ reminder' \in [DOMAIN reminder' -> reminder_t]
        /\ UNCHANGED <<users_list, user, tick>>
    BY <1>3 DEF CleanupReminders, NoBlocks
  <2>2. tick = 0 /\ DOMAIN user = {} /\ closing' \in BOOLEAN /\ ~closing'
    BY <1>3 DEF CleanupReminders, ClosingShape
  <2>3. /\ reminders_list' \in Seq(ReminderBlock) /\ Range(reminders_list') = {}
        /\ IsInjective(reminders_list') /\ Len(reminders_list') = 0
    BY <2>1, EmptySeq DEF Range, IsInjective
  <2>4. TypeOK'
    BY <2>1, <2>2, <2>3 DEF TypeOK
  <2>5. QED
    BY <2>1, <2>2, <2>3, <2>4 DEF NoDanglingPointers, NoLeak, ListsAgree, ClosingShape
<1>4. QED
  BY <1>1, <1>2, <1>3

LEMMA HeapStep == HeapInv /\ [Next]_vars => HeapInv'
BY AddNewUserHeap, AddUserReminderHeap, RemoveUserHeap, RemoveUserNotificationHeap,
   ExpireHeap, CountDownHeap, OtherStepsHeap DEF Next

LEMMA HeapInvariant == Spec => []HeapInv
BY HeapInit, HeapStep, PTL DEF Spec

(* The lists and blocks always have their shape, and the loop of           *)
(* handle_timer_tick never runs past the end of its list.                  *)
THEOREM TypeCorrect == Spec => []TypeOK
<1>1. HeapInv => TypeOK
  BY DEF HeapInv
<1>2. QED
  BY <1>1, HeapInvariant, PTL

(* No call of the library ever follows a pointer to freed memory, however  *)
(* many users, reminders and blocks there are.                             *)
THEOREM NoUseAfterFree == Spec => []NoDanglingPointers
<1>1. HeapInv => NoDanglingPointers
  BY DEF HeapInv
<1>2. QED
  BY <1>1, HeapInvariant, PTL

(* No call of the library ever loses the last pointer to a block.          *)
THEOREM NothingLeaks == Spec => []NoLeak
<1>1. HeapInv => NoLeak
  BY DEF HeapInv
<1>2. QED
  BY <1>1, HeapInvariant, PTL

(* The global list and the lists of the users always agree.                *)
THEOREM BothListsAgree == Spec => []ListsAgree
<1>1. HeapInv => ListsAgree
  BY DEF HeapInv
<1>2. QED
  BY <1>1, HeapInvariant, PTL

-----------------------------------------------------------------------------

(* Users can be told apart by their names, however the calls that add and  *)
(* remove users are mixed.                                                 *)
THEOREM NamesAreUnique == Spec => []UniqueNames
<1>1. Init => UniqueNames
  BY DEF Init, NoBlocks, UniqueNames
<1>2. HeapInv /\ UniqueNames /\ [Next]_vars => UniqueNames'
  <2> SUFFICES ASSUME HeapInv, UniqueNames, [Next]_vars
               PROVE  UniqueNames'
    OBVIOUS
  <2> USE DEF UniqueNames
  <2>1. ASSUME NEW u, NEW w, user' = [user EXCEPT ![u].notifications_list = w]
        PROVE  UniqueNames'
    <3>1. /\ DOMAIN user' = DOMAIN user
          /\ \A v \in DOMAIN user : user'[v].user_name = user[v].user_name
      BY <2>1 DEF HeapInv, TypeOK, user_t
    <3>2. QED
      BY <3>1
  <2>2. ASSUME NEW name \in UserName, AddNewUser(name)
        PROVE  UniqueNames'
    <3>1. CASE user' = user
      BY <3>1
    <3>2. CASE ~(user' = user)
      <4>1. PICK u \in UserBlock \ DOMAIN user :
              user' = Put(user, u, [user_name |-> name, notifications_list |-> << >>])
        BY <2>2, <3>2 DEF AddNewUser
      <4>2. /\ DOMAIN user' = DOMAIN user \cup {u} /\ user'[u].user_name = name
            /\ \A v \in DOMAIN user : user'[v] = user[v]
        BY <4>1 DEF Put
      <4>3. \A v \in DOMAIN user : user[v].user_name # name
        <5>1. ~IsUserExists(name)
          BY <2>2, <3>2 DEF AddNewUser
        <5>2. \A v \in DOMAIN user : \E i \in DOMAIN users_list : users_list[i] = v
          BY DEF HeapInv, NoLeak, Range
        <5>3. QED
          BY <5>1, <5>2 DEF IsUserExists
      <4>4. QED
        BY <4>2, <4>3
    <3>3. QED
      BY <3>1, <3>2
  <2>3. ASSUME NEW name \in UserName, ClientRemovesUser(name)
        PROVE  UniqueNames'
    BY <2>3 DEF ClientRemovesUser, RemoveUser, Drop
  <2>4. ASSUME NEW name \in UserName, NEW t \in Times, AddUserReminder(name, t)
        PROVE  UniqueNames'
    <3>1. CASE user' = user
      BY <3>1
    <3>2. CASE ~(user' = user)
      <4>1. PICK i \in DOMAIN users_list, r \in ReminderBlock :
              user' = [user EXCEPT ![users_list[i]].notifications_list = Append(@, r)]
        BY <2>4, <3>2 DEF AddUserReminder
      <4>2. QED
        BY <2>1, <4>1, EntryIsUser, AppendProperties
    <3>3. QED
      BY <3>1, <3>2
  <2>5. ASSUME NEW name \in UserName, NEW number, RemoveUserNotification(name, number)
        PROVE  UniqueNames'
    <3>1. CASE user' = user
      BY <3>1
    <3>2. CASE ~(user' = user)
      <4>1. PICK u, r : user' = Unlinked(u, r)
        BY <2>5, <3>2 DEF RemoveUserNotification
      <4>2. QED
        BY <2>1, <4>1 DEF Unlinked
    <3>3. QED
      BY <3>1, <3>2
  <2>6. CASE Expire
    <3>1. PICK u, r : user' = Unlinked(u, r)
      BY <2>6 DEF Expire
    <3>2. QED
      BY <2>1, <3>1 DEF Unlinked
  <2>7. CASE CleanupUsers
    BY <2>7 DEF CleanupUsers, NoBlocks
  <2>8. CASE TickStart \/ CountDown \/ TickEnd \/ CleanupReminders \/ UNCHANGED vars
    BY <2>8 DEF TickStart, CountDown, TickEnd, CleanupReminders, vars
  <2>9. QED
    BY <2>2, <2>3, <2>4, <2>5, <2>6, <2>7, <2>8 DEF Next
<1>3. QED
  BY <1>1, <1>2, HeapInvariant, PTL DEF Spec

-----------------------------------------------------------------------------

(* What the entries of the two lists stand for.                            *)
LEMMA EntryIsReminder ==
  ASSUME HeapInv, NEW i \in DOMAIN reminders_list
  PROVE  /\ i \in 1 .. Len(reminders_list) /\ Len(reminders_list) \in Nat
         /\ reminders_list[i] \in DOMAIN reminder
         /\ reminder[reminders_list[i]].ellapse_time \in Int
         /\ Left(i) \in Int
         /\ \A j \in DOMAIN reminders_list : reminders_list[j] = reminders_list[i] => j = i
<1>1. reminders_list[i] \in Range(reminders_list)
  BY DEF Range
<1>2. reminders_list[i] \in DOMAIN reminder
  BY <1>1 DEF HeapInv, NoDanglingPointers
<1>3. reminder[reminders_list[i]].ellapse_time \in Int
  BY <1>2 DEF HeapInv, TypeOK, reminder_t
<1>4. i \in 1 .. Len(reminders_list) /\ Len(reminders_list) \in Nat
  BY LenProperties DEF HeapInv, TypeOK
<1>5. QED
  BY <1>2, <1>3, <1>4 DEF Left, HeapInv, ListsAgree, IsInjective

LEMMA AddUserReminderSorted ==
  ASSUME HeapInv, SortedByTime, NEW name \in UserName, NEW t \in Times,
         AddUserReminder(name, t)
  PROVE  SortedByTime'
<1>0. tick = 0 /\ tick' = 0
  BY DEF AddUserReminder, Idle
<1>1. CASE UNCHANGED <<reminders_list, user, reminder>>
  BY <1>0, <1>1 DEF SortedByTime, Left
<1>2. ASSUME NEW u, NEW r \in ReminderBlock \ DOMAIN reminder,
             NEW k \in 1 .. Len(reminders_list) + 1,
             InsertPosition(k, t),
             reminders_list' = InsertAt(reminders_list, k, r),
             reminder' = Put(reminder, r, [belongs_to |-> u, ellapse_time |-> t])
      PROVE  SortedByTime'
  <2> DEFINE e(i) == reminder[reminders_list[i]].ellapse_time
             f(i) == reminder'[reminders_list'[i]].ellapse_time
             n == Len(reminders_list)
  <2>1. /\ n \in Nat /\ DOMAIN reminders_list = 1 .. n /\ DOMAIN reminders_list' = 1 .. n + 1
        /\ \A j \in 1 .. n + 1 :
             reminders_list'[j] = IF j < k THEN reminders_list[j]
                                  ELSE IF j = k THEN r ELSE reminders_list[j - 1]
    <3>1. reminders_list \in Seq(ReminderBlock)
      BY DEF HeapInv, TypeOK
    <3> DEFINE new == InsertAt(reminders_list, k, r)
    <3> HIDE DEF new, e, f, n
    <3>2. /\ new \in Seq(ReminderBlock) /\ Len(new) = Len(reminders_list) + 1
          /\ \A j \in 1 .. Len(reminders_list) + 1 :
               new[j] = IF j < k THEN reminders_list[j]
                        ELSE IF j = k THEN r ELSE reminders_list[j - 1]
      BY <1>2, <3>1, InsertAtElements DEF new
    <3>3. reminders_list' = new
      BY <1>2 DEF new
    <3>4. QED
      BY <3>1, <3>2, <3>3, LenProperties DEF n
  <2>2. /\ \A q \in DOMAIN reminder : reminder'[q] = reminder[q]
        /\ reminder'[r].ellapse_time = t
    BY <1>2 DEF Put
  <2>3. \A i \in 1 .. n : e(i) \in Int /\ reminders_list[i] \in DOMAIN reminder
    BY <2>1, EntryIsReminder
  <2>4. \A i, j \in 1 .. n : i < j => e(i) <= e(j)
    BY <1>0, <2>1 DEF SortedByTime, Left
  <2>5. /\ \A j \in 1 .. k - 1 : e(j) <= t
        /\ k <= n => e(k) > t
    BY <1>2 DEF InsertPosition
  <2>6. t \in Int
    BY RemindersAssumption
  <2>7. \A j \in 1 .. n + 1 :
          f(j) = IF j < k THEN e(j) ELSE IF j = k THEN t ELSE e(j - 1)
    <3> SUFFICES ASSUME NEW j \in 1 .. n + 1
                 PROVE  f(j) = IF j < k THEN e(j) ELSE IF j = k THEN t ELSE e(j - 1)
      OBVIOUS
    <3>1. CASE j < k
      <4>1. j \in 1 .. n /\ reminders_list'[j] = reminders_list[j]
        BY <2>1, <3>1
      <4>2. QED
        BY <2>2, <2>3, <3>1, <4>1
    <3>2. CASE j = k
      BY <2>1, <2>2, <3>2
    <3>3. CASE j > k
      <4>1. j - 1 \in 1 .. n /\ reminders_list'[j] = reminders_list[j - 1]
        BY <2>1, <3>3
      <4>2. QED
        BY <2>1, <2>2, <2>3, <3>3, <4>1
    <3>4. QED
      BY <2>1, <3>1, <3>2, <3>3
  <2> HIDE DEF e, f, n
  <2>8. \A j \in 1 .. n : j >= k => e(j) > t
    <3> SUFFICES ASSUME NEW j \in 1 .. n, j >= k PROVE e(j) > t
      OBVIOUS
    <3>1. k \in 1 .. n /\ e(k) > t
      BY <2>1, <2>5
    <3>2. k = j \/ e(k) <= e(j)
      BY <2>1, <2>4, <3>1
    <3>3. QED
      BY <2>3, <2>6, <3>1, <3>2
  <2>9. ASSUME NEW i \in 1 .. n + 1, NEW j \in 1 .. n + 1, i < j
        PROVE  f(i) <= f(j)
    <3>1. CASE j < k
      <4>1. i \in 1 .. n /\ j \in 1 .. n /\ i < k
        BY <2>1, <2>9, <3>1
      <4>2. QED
        BY <2>4, <2>7, <2>9, <3>1, <4>1
    <3>2. CASE j = k
      BY <2>1, <2>5, <2>7, <2>9, <3>2
    <3>3. CASE j > k
      <4>1. j - 1 \in 1 .. n /\ j - 1 >= k /\ f(j) = e(j - 1)
        BY <2>1, <2>7, <3>3
      <4>2. e(j - 1) > t /\ e(j - 1) \in Int
        BY <2>3, <2>8, <4>1
      <4>3. CASE i < k
        <5>1. i \in 1 .. n /\ f(i) = e(i) /\ i < j - 1
          BY <2>1, <2>7, <3>3, <4>3
        <5>2. QED
          BY <2>4, <4>1, <5>1
      <4>4. CASE i = k
        <5>1. f(i) = t
          BY <2>7, <4>4
        <5>2. QED
          BY <2>6, <4>1, <4>2, <5>1
      <4>5. CASE i > k
        <5>1. i - 1 \in 1 .. n /\ f(i) = e(i - 1) /\ i - 1 < j - 1
          BY <2>1, <2>7, <2>9, <4>5
        <5>2. QED
          BY <2>4, <4>1, <5>1
      <4>6. QED
        BY <2>1, <4>3, <4>4, <4>5
    <3>4. QED
      BY <2>1, <3>1, <3>2, <3>3
  <2>10. QED
    BY <1>0, <2>1, <2>9 DEF SortedByTime, Left, f
<1>3. QED
  BY <1>1, <1>2 DEF AddUserReminder

LEMMA RemoveUserNotificationSorted ==
  ASSUME HeapInv, SortedByTime, NEW name \in UserName, NEW number,
         RemoveUserNotification(name, number)
  PROVE  SortedByTime'
<1>0. tick = 0 /\ tick' = 0
  BY DEF RemoveUserNotification, Idle
<1>1. CASE UNCHANGED <<reminders_list, user, reminder>>
  BY <1>0, <1>1 DEF SortedByTime, Left
<1>2. ASSUME NEW p \in DOMAIN reminders_list,
             reminders_list' = RemoveAt(reminders_list, p),
             reminder' = Drop(reminder, reminders_list[p])
      PROVE  SortedByTime'
  <2> DEFINE n == Len(reminders_list)
  <2>1. reminders_list \in Seq(ReminderBlock) /\ p \in 1 .. n /\ n \in Nat
        /\ DOMAIN reminders_list = 1 .. n
    BY LenProperties DEF HeapInv, TypeOK
  <2>2. /\ DOMAIN reminders_list' = 1 .. n - 1
        /\ \A j \in 1 .. n - 1 :
             reminders_list'[j] = IF j < p THEN reminders_list[j] ELSE reminders_list[j + 1]
    BY <1>2, <2>1, RemoveAtElements, LenProperties
  <2>3. \A q \in DOMAIN reminder \ {reminders_list[p]} : reminder'[q] = reminder[q]
    BY <1>2 DEF Drop
  <2>4. \A j \in 1 .. n : j # p =>
          reminder'[reminders_list[j]].ellapse_time = Left(j) /\ Left(j) \in Int
    BY <1>0, <2>1, <2>3, EntryIsReminder DEF Left
  <2> HIDE DEF n
  <2>5. ASSUME NEW j \in 1 .. n - 1
        PROVE  reminder'[reminders_list'[j]].ellapse_time = Left(IF j < p THEN j ELSE j + 1)
    <3>1. CASE j < p
      BY <2>1, <2>2, <2>4, <3>1
    <3>2. CASE j >= p
      <4>1. j + 1 \in 1 .. n /\ j + 1 # p /\ reminders_list'[j] = reminders_list[j + 1]
        BY <2>1, <2>2, <3>2
      <4>2. QED
        BY <2>1, <2>4, <3>2, <4>1
    <3>3. QED
      BY <2>1, <3>1, <3>2
  <2>6. \A i, j \in 1 .. n : i < j => Left(i) <= Left(j)
    BY <2>1 DEF SortedByTime
  <2>7. ASSUME NEW i \in 1 .. n - 1, NEW j \in 1 .. n - 1, i < j
        PROVE  reminder'[reminders_list'[i]].ellapse_time
                 <= reminder'[reminders_list'[j]].ellapse_time
    <3> DEFINE a == IF i < p THEN i ELSE i + 1
               b == IF j < p THEN j ELSE j + 1
    <3>1. a \in 1 .. n /\ b \in 1 .. n /\ a < b
      BY <2>1, <2>7
    <3>2. Left(a) <= Left(b)
      BY <2>6, <3>1
    <3>3. QED
      BY <2>5, <3>2
  <2>8. QED
    BY <1>0, <2>2, <2>7 DEF SortedByTime, Left
<1>3. QED
  BY <1>1, <1>2 DEF RemoveUserNotification

(* Counting down in the middle of a tick changes no time left.             *)
LEMMA CountDownLeft ==
  ASSUME HeapInv, CountDown
  PROVE  \A i \in DOMAIN reminders_list : Left(i)' = Left(i)
<1>1. /\ reminders_list' = reminders_list /\ tick' = tick + 1
      /\ tick \in DOMAIN reminders_list
      /\ reminder' = [reminder EXCEPT ![reminders_list[tick]].ellapse_time = @ - 1]
  BY DEF CountDown
<1>2. tick \in 1 .. Len(reminders_list) /\ Len(reminders_list) \in Nat
      /\ DOMAIN reminders_list = 1 .. Len(reminders_list)
  BY <1>1, LenProperties DEF HeapInv, TypeOK
<1>3. ASSUME NEW i \in DOMAIN reminders_list
      PROVE  Left(i)' = Left(i)
  <2> DEFINE r == reminders_list[i]
  <2>1. /\ r \in DOMAIN reminder /\ reminder[r] \in reminder_t
        /\ i \in 1 .. Len(reminders_list)
        /\ i # tick => r # reminders_list[tick]
    BY <1>1, EntryIsReminder DEF HeapInv, TypeOK
  <2>2. CASE i = tick
    <3>1. reminder'[r].ellapse_time = reminder[r].ellapse_time - 1
      BY <1>1, <2>1, <2>2 DEF reminder_t
    <3>2. QED
      BY <1>1, <1>2, <2>1, <2>2, <3>1 DEF Left
  <2>3. CASE i # tick
    <3>1. reminder'[r] = reminder[r]
      BY <1>1, <2>1, <2>3
    <3>2. i >= tick + 1 <=> i >= tick
      BY <1>2, <2>1, <2>3
    <3>3. QED
      BY <1>1, <1>2, <2>1, <3>1, <3>2 DEF Left
  <2>4. QED
    BY <2>2, <2>3
<1>4. QED
  BY <1>3

LEMMA CountDownSorted ==
  ASSUME HeapInv, SortedByTime, CountDown
  PROVE  SortedByTime'
BY CountDownLeft DEF CountDown, SortedByTime

LEMMA ExpireSorted ==
  ASSUME HeapInv, SortedByTime, Expire
  PROVE  SortedByTime'
<1> DEFINE n == Len(reminders_list)
<1>1. /\ reminders_list \in Seq(ReminderBlock) /\ tick \in 1 .. n /\ n \in Nat
      /\ DOMAIN reminders_list = 1 .. n
      /\ tick' = tick /\ reminders_list' = RemoveAt(reminders_list, tick)
      /\ reminder' = Drop(reminder, reminders_list[tick])
  BY LenProperties DEF HeapInv, TypeOK, Expire
<1>2. /\ DOMAIN reminders_list' = 1 .. n - 1
      /\ \A j \in 1 .. n - 1 :
           reminders_list'[j] = IF j < tick THEN reminders_list[j] ELSE reminders_list[j + 1]
  <2> DEFINE z == RemoveAt(reminders_list, tick)
  <2>1. /\ z \in Seq(ReminderBlock) /\ Len(z) = n - 1
        /\ \A j \in 1 .. n - 1 :
             z[j] = IF j < tick THEN reminders_list[j] ELSE reminders_list[j + 1]
    BY <1>1, RemoveAtElements
  <2> HIDE DEF z
  <2>2. DOMAIN z = 1 .. n - 1
    BY <1>1, <2>1, LenProperties
  <2>3. QED
    BY <1>1, <2>1, <2>2 DEF z
<1>3. \A q \in DOMAIN reminder \ {reminders_list[tick]} : reminder'[q] = reminder[q]
  BY <1>1 DEF Drop
<1>4. \A j \in 1 .. n : j # tick =>
        reminder'[reminders_list[j]] = reminder[reminders_list[j]] /\ Left(j) \in Int
  BY <1>1, <1>3, EntryIsReminder
<1> HIDE DEF n
<1>5. ASSUME NEW j \in 1 .. n - 1
      PROVE  Left(j)' = Left(IF j < tick THEN j ELSE j + 1)
  <2>1. CASE j < tick
    <3>1. reminders_list'[j] = reminders_list[j] /\ j \in 1 .. n /\ j # tick
      BY <1>1, <1>2, <2>1
    <3>2. QED
      BY <1>1, <1>4, <2>1, <3>1 DEF Left
  <2>2. CASE j >= tick
    <3>1. reminders_list'[j] = reminders_list[j + 1] /\ j + 1 \in 1 .. n /\ j + 1 # tick
      BY <1>1, <1>2, <2>2
    <3>2. QED
      BY <1>1, <1>4, <2>2, <3>1 DEF Left
  <2>3. QED
    BY <1>1, <2>1, <2>2
<1>6. \A i, j \in 1 .. n : i < j => Left(i) <= Left(j)
  BY <1>1 DEF SortedByTime
<1>7. ASSUME NEW i \in 1 .. n - 1, NEW j \in 1 .. n - 1, i < j
      PROVE  Left(i)' <= Left(j)'
  <2> DEFINE a == IF i < tick THEN i ELSE i + 1
             b == IF j < tick THEN j ELSE j + 1
  <2>1. a \in 1 .. n /\ b \in 1 .. n /\ a < b
    BY <1>1, <1>7
  <2>2. Left(a) <= Left(b)
    BY <1>6, <2>1
  <2>3. QED
    BY <1>5, <2>2
<1>8. QED
  BY <1>2, <1>7 DEF SortedByTime

LEMMA TickEndLeft ==
  ASSUME HeapInv, TickEnd
  PROVE  \A i \in DOMAIN reminders_list : Left(i)' = Left(i)
<1>1. \A i \in DOMAIN reminders_list :
        i \in 1 .. Len(reminders_list) /\ Len(reminders_list) \in Nat
  BY EntryIsReminder
<1>2. /\ tick = Len(reminders_list) + 1 /\ tick' = 0
      /\ reminders_list' = reminders_list /\ reminder' = reminder
  BY DEF TickEnd
<1>3. QED
  BY <1>1, <1>2 DEF Left

LEMMA TickBoundsSorted ==
  ASSUME HeapInv, SortedByTime, TickStart \/ TickEnd
  PROVE  SortedByTime'
<1>1. reminders_list' = reminders_list /\ reminder' = reminder
  BY DEF TickStart, TickEnd
<1>2. \A i \in DOMAIN reminders_list :
        /\ i \in 1 .. Len(reminders_list) /\ Len(reminders_list) \in Nat
        /\ reminder[reminders_list[i]].ellapse_time \in Int
  BY EntryIsReminder
<1>3. CASE TickStart
  <2>1. tick = 0 /\ tick' = 1
    BY <1>3 DEF TickStart, Idle
  <2>2. \A i \in DOMAIN reminders_list : Left(i)' = Left(i) - 1 /\ Left(i) \in Int
    BY <1>1, <1>2, <2>1 DEF Left
  <2>3. QED
    BY <1>1, <2>2 DEF SortedByTime
<1>4. CASE TickEnd
  <2>1. \A i \in DOMAIN reminders_list : Left(i)' = Left(i)
    BY <1>4, TickEndLeft
  <2>2. QED
    BY <1>1, <2>1 DEF SortedByTime
<1>5. QED
  BY <1>3, <1>4

(* reminders_list is sorted by the time left, in the middle of a tick too, *)
(* for any number of reminders and any times, positive or not.             *)
THEOREM AlwaysSorted == Spec => []SortedByTime
<1>1. Init => SortedByTime
  BY DEF Init, SortedByTime
<1>2. HeapInv /\ SortedByTime /\ [Next]_vars => SortedByTime'
  <2> SUFFICES ASSUME HeapInv, SortedByTime, [Next]_vars
               PROVE  SortedByTime'
    OBVIOUS
  <2>1. CASE UNCHANGED <<reminders_list, reminder, tick>>
    BY <2>1 DEF SortedByTime, Left
  <2>2. CASE CleanupReminders
    BY <2>2 DEF CleanupReminders, SortedByTime
  <2>3. (\/ \E name \in UserName : AddNewUser(name) \/ ClientRemovesUser(name)
         \/ CleanupUsers \/ UNCHANGED vars) => UNCHANGED <<reminders_list, reminder, tick>>
    BY DEF AddNewUser, ClientRemovesUser, RemoveUser, CleanupUsers, vars
  <2>4. QED
    BY <2>1, <2>2, <2>3, AddUserReminderSorted, RemoveUserNotificationSorted, CountDownSorted,
       ExpireSorted, TickBoundsSorted DEF Next
<1>3. QED
  BY <1>1, <1>2, HeapInvariant, PTL DEF Spec

(* When clients only ask for positive times, a reminder whose time has run *)
(* out is never still pending.                                             *)
THEOREM NeverOverdue == Spec => []NoneOverdue
<1>1. Init => NoneOverdue
  BY DEF Init, NoBlocks, NoneOverdue
<1>2. HeapInv /\ NoneOverdue /\ [Next]_vars => NoneOverdue'
  <2> SUFFICES ASSUME HeapInv, [Next]_vars, \A t \in Times : t > 0,
                      \A r \in DOMAIN reminder : reminder[r].ellapse_time > 0
               PROVE  \A r \in DOMAIN reminder' : reminder'[r].ellapse_time > 0
    BY DEF NoneOverdue
  <2>1. \A r \in DOMAIN reminder : reminder[r] \in reminder_t
    BY DEF HeapInv, TypeOK
  <2>2. ASSUME NEW name \in UserName, NEW t \in Times, AddUserReminder(name, t)
        PROVE  \A r \in DOMAIN reminder' : reminder'[r].ellapse_time > 0
    <3>1. CASE reminder' = reminder
      BY <3>1
    <3>2. CASE ~(reminder' = reminder)
      <4>1. PICK u \in UserBlock, r \in ReminderBlock \ DOMAIN reminder :
              reminder' = Put(reminder, r, [belongs_to |-> u, ellapse_time |-> t])
        BY <2>2, <3>2, EntryIsUser DEF AddUserReminder
      <4>2. /\ DOMAIN reminder' = DOMAIN reminder \cup {r} /\ reminder'[r].ellapse_time = t
            /\ \A q \in DOMAIN reminder : reminder'[q] = reminder[q]
        BY <4>1 DEF Put
      <4>3. QED
        BY <4>2
    <3>3. QED
      BY <3>1, <3>2
  <2>3. ASSUME NEW name \in UserName, NEW number, RemoveUserNotification(name, number)
        PROVE  \A r \in DOMAIN reminder' : reminder'[r].ellapse_time > 0
    BY <2>3 DEF RemoveUserNotification, Drop
  <2>4. CASE CountDown
    <3> DEFINE r == reminders_list[tick]
    <3>1. r \in DOMAIN reminder /\ reminder[r].ellapse_time # 1
      BY <2>1, <2>4, EntryIsReminder DEF CountDown, BecomesDue, reminder_t
    <3>2. reminder' = [reminder EXCEPT ![r].ellapse_time = @ - 1]
      BY <2>4 DEF CountDown
    <3>3. reminder[r].ellapse_time - 1 > 0
      BY <2>1, <3>1 DEF reminder_t
    <3> HIDE DEF r
    <3>4. QED
      BY <2>1, <3>1, <3>2, <3>3 DEF reminder_t
  <2>5. CASE Expire
    BY <2>5 DEF Expire, Drop
  <2>6. CASE CleanupReminders
    BY <2>6 DEF CleanupReminders, NoBlocks
  <2>7. CASE reminder' = reminder
    BY <2>7
  <2>8. QED
    BY <2>2, <2>3, <2>4, <2>5, <2>6, <2>7
    DEF Next, AddNewUser, ClientRemovesUser, RemoveUser, TickStart, TickEnd, CleanupUsers, vars
<1>3. QED
  BY <1>1, <1>2, HeapInvariant, PTL DEF Spec

-----------------------------------------------------------------------------
(* The refinement of the calendar.  First about sorted times and the part  *)
(* of a list that Waiting cuts out by them, for any list.                  *)

(* The times left of n pending reminders, the next one to expire first.    *)
SortedTimes(n) ==
  {f \in [1 .. n -> Int] : \A i, j \in 1 .. n : i < j => f[i] <= f[j]}

(* Those that wait at most k ticks come first.                             *)
LEMMA WithinIs ==
  ASSUME NEW n \in Nat, NEW f \in SortedTimes(n), NEW k \in Int
  PROVE  /\ Within(f, k) \in 0 .. n
         /\ \A i \in 1 .. n : f[i] <= k <=> i <= Within(f, k)
<1> DEFINE T == {j \in 1 .. n + 1 : j <= n => f[j] > k}
<1>0. /\ f \in [1 .. n -> Int] /\ \A i \in 1 .. n : f[i] \in Int
      /\ \A i, j \in 1 .. n : i < j => f[i] <= f[j]
  BY DEF SortedTimes
<1>1. n + 1 \in T /\ T \subseteq Nat
  OBVIOUS
<1>2. PICK x \in T : \A y \in T : x <= y
  BY <1>1, Least
<1>3. x \in 1 .. n + 1 /\ (x <= n => f[x] > k)
  OBVIOUS
<1>4. ASSUME NEW i \in 1 .. n
      PROVE  f[i] <= k <=> i <= x - 1
  <2>1. CASE i < x
    <3>1. i \notin T
      BY <1>2, <1>3, <2>1
    <3>2. ~(f[i] > k)
      BY <3>1
    <3>3. f[i] <= k /\ i <= x - 1
      BY <1>0, <1>3, <2>1, <3>2
    <3>4. QED
      BY <3>3
  <2>2. CASE i >= x
    <3>1. x \in 1 .. n /\ f[x] > k
      BY <1>3, <2>2
    <3>2. i = x \/ f[x] <= f[i]
      BY <1>0, <2>2, <3>1
    <3>3. f[i] > k
      BY <1>0, <3>1, <3>2
    <3>4. ~(f[i] <= k) /\ ~(i <= x - 1)
      BY <1>0, <2>2, <3>1, <3>3
    <3>5. QED
      BY <3>4
  <2>3. QED
    BY <1>3, <2>1, <2>2
<1> HIDE DEF T
<1>5. {i \in DOMAIN f : f[i] <= k} = 1 .. x - 1
  <2>1. DOMAIN f = 1 .. n
    BY <1>0
  <2>2. \A i \in 1 .. x - 1 : i \in 1 .. n
    BY <1>3
  <2>3. \A i \in 1 .. n : i \in 1 .. x - 1 <=> i <= x - 1
    BY <1>3
  <2>4. QED
    BY <1>4, <2>1, <2>2, <2>3
<1>6. Cardinality(1 .. x - 1) = x - 1
  BY <1>3, FS_Interval
<1>7. Within(f, k) = x - 1
  BY <1>5, <1>6 DEF Within
<1>8. QED
  BY <1>3, <1>4, <1>7

(* There is only one such number.                                          *)
LEMMA WithinUnique ==
  ASSUME NEW n \in Nat, NEW f \in SortedTimes(n), NEW k \in Int, NEW c \in 0 .. n,
         \A i \in 1 .. n : f[i] <= k <=> i <= c
  PROVE  Within(f, k) = c
<1> DEFINE d == Within(f, k)
<1>1. d \in 0 .. n /\ \A i \in 1 .. n : f[i] <= k <=> i <= d
  BY WithinIs
<1> HIDE DEF d
<1>2. CASE c < d
  <2>1. d \in 1 .. n
    BY <1>1, <1>2
  <2>2. d <= c <=> d <= d
    BY <1>1, <2>1
  <2>3. QED
    BY <1>2, <2>1, <2>2
<1>3. CASE d < c
  <2>1. c \in 1 .. n
    BY <1>1, <1>3
  <2>2. c <= c <=> c <= d
    BY <1>1, <2>1
  <2>3. QED
    BY <1>1, <1>3, <2>1, <2>2
<1>4. QED
  BY <1>1, <1>2, <1>3 DEF d

(* w is the part of s after position a and up to position b.               *)
IsSlice(S, w, s, a, b) ==
  /\ a \in 0 .. Len(s) /\ b \in a .. Len(s)
  /\ w \in Seq(S) /\ Len(w) = b - a
  /\ \A i \in 1 .. b - a : w[i] = s[a + i]

(* Waiting cuts out of the list those whose time left is k.                *)
LEMMA WaitingIs ==
  ASSUME NEW S, NEW s \in Seq(S), NEW f \in SortedTimes(Len(s)),
         NEW k \in Int, NEW h \in Int, h = k - 1
  PROVE  /\ IsSlice(S, Waiting(s, f, k), s, Within(f, h), Within(f, k))
         /\ \A i \in 1 .. Len(s) : f[i] = k <=> Within(f, h) < i /\ i <= Within(f, k)
<1> DEFINE n == Len(s)
           a == Within(f, h)
           b == Within(f, k)
           w == Waiting(s, f, k)
<1>1. n \in Nat /\ \A i \in 1 .. n : s[i] \in S
  BY LenProperties, ElementOfSeq
<1>2. \A i \in 1 .. n : f[i] \in Int
  BY DEF SortedTimes
<1>3. a \in 0 .. n /\ \A i \in 1 .. n : f[i] <= k - 1 <=> i <= a
  <2>1. a \in 0 .. n /\ \A i \in 1 .. n : f[i] <= h <=> i <= a
    BY <1>1, WithinIs
  <2>2. QED
    BY <2>1
<1>4. b \in 0 .. n /\ \A i \in 1 .. n : f[i] <= k <=> i <= b
  BY <1>1, WithinIs
<1>5. w = SubSeq(s, a + 1, b)
  BY DEF Waiting
<1> HIDE DEF n, a, b, w
<1>6. a <= b
  <2>1. CASE a = 0
    BY <1>4, <2>1
  <2>2. CASE a > 0
    <3>1. a \in 1 .. n
      BY <1>1, <1>3, <2>2
    <3>2. f[a] <= k - 1
      BY <1>1, <1>3, <3>1
    <3>3. f[a] <= k
      BY <1>2, <3>1, <3>2
    <3>4. QED
      BY <1>4, <3>1, <3>3
  <2>3. QED
    BY <1>3, <2>1, <2>2
<1>7. \A i \in a + 1 .. b : s[i] \in S
  BY <1>1, <1>3, <1>4
<1>8. /\ w \in Seq(S) /\ Len(w) = IF a + 1 <= b THEN b - (a + 1) + 1 ELSE 0
      /\ \A i \in 1 .. b - (a + 1) + 1 : w[i] = s[(a + 1) + i - 1]
  BY <1>3, <1>4, <1>5, <1>7, SubSeqProperties
<1>9. Len(w) = b - a
  BY <1>1, <1>3, <1>4, <1>6, <1>8
<1>10. ASSUME NEW i \in 1 .. b - a
       PROVE  w[i] = s[a + i]
  <2>1. b - (a + 1) + 1 = b - a /\ (a + 1) + i - 1 = a + i
    BY <1>1, <1>3, <1>4
  <2>2. QED
    BY <1>8, <2>1
<1>11. ASSUME NEW i \in 1 .. n
       PROVE  f[i] = k <=> a < i /\ i <= b
  <2>1. f[i] = k <=> f[i] <= k /\ ~(f[i] <= k - 1)
    BY <1>2
  <2>2. (f[i] <= k <=> i <= b) /\ (f[i] <= k - 1 <=> i <= a)
    BY <1>3, <1>4
  <2>3. ~(i <= a) <=> a < i
    BY <1>1, <1>3
  <2>4. QED
    BY <2>1, <2>2, <2>3
<1>12. b \in a .. n
  BY <1>3, <1>4, <1>6
<1>13. QED
  BY <1>3, <1>8, <1>9, <1>10, <1>11, <1>12 DEF n, a, b, w, IsSlice

(* A time t enters the sorted times f of n reminders at position p, behind *)
(* all that are no later, and g are the times then.                        *)
TimeInserted(n, f, p, t, g) ==
  /\ f \in SortedTimes(n) /\ g \in SortedTimes(n + 1)
  /\ \A j \in 1 .. p - 1 : f[j] <= t
  /\ p <= n => f[p] > t
  /\ \A j \in 1 .. n + 1 : g[j] = IF j < p THEN f[j] ELSE IF j = p THEN t ELSE f[j - 1]

(* A reminder that enters the list behind all that are due no later joins  *)
(* the end of those that wait as long as it does.                          *)
LEMMA InsertWaiting ==
  ASSUME NEW S, NEW s \in Seq(S), NEW e \in S, NEW p \in 1 .. Len(s) + 1,
         NEW t \in Int, NEW f, NEW g, TimeInserted(Len(s), f, p, t, g), NEW k \in Int
  PROVE  Waiting(InsertAt(s, p, e), g, k) =
           IF k = t THEN Append(Waiting(s, f, k), e) ELSE Waiting(s, f, k)
<1> DEFINE n == Len(s)
           z == InsertAt(s, p, e)
           C(j) == IF j < t THEN Within(f, j) ELSE Within(f, j) + 1
<1> HIDE DEF n, z, C
<1>1. /\ n \in Nat /\ f \in SortedTimes(n) /\ g \in SortedTimes(n + 1)
      /\ \A i \in 1 .. n : f[i] \in Int
      /\ \A i, j \in 1 .. n : i < j => f[i] <= f[j]
  BY LenProperties DEF TimeInserted, SortedTimes, n
<1>2. /\ z \in Seq(S) /\ Len(z) = n + 1
      /\ \A j \in 1 .. n + 1 : z[j] = IF j < p THEN s[j] ELSE IF j = p THEN e ELSE s[j - 1]
  BY InsertAtElements DEF z, n
<1>3. /\ \A j \in 1 .. p - 1 : f[j] <= t
      /\ p <= n => f[p] > t
      /\ \A j \in 1 .. n + 1 : g[j] = IF j < p THEN f[j] ELSE IF j = p THEN t ELSE f[j - 1]
  BY DEF TimeInserted, n
<1>4. \A j \in Int : Within(f, j) \in 0 .. n /\ \A i \in 1 .. n : f[i] <= j <=> i <= Within(f, j)
  BY <1>1, WithinIs
<1>5. p \in 1 .. n + 1
  BY DEF n
<1>6. Within(f, t) = p - 1
  <2>1. \A i \in 1 .. n : i < p => f[i] <= t
    BY <1>3, <1>5
  <2>2. ASSUME NEW i \in 1 .. n, ~(i < p)
        PROVE  f[i] > t
    <3>1. p \in 1 .. n /\ f[p] > t
      BY <1>1, <1>3, <1>5, <2>2
    <3>2. i = p \/ f[p] <= f[i]
      BY <1>1, <2>2, <3>1
    <3>3. QED
      BY <1>1, <3>1, <3>2
  <2>3. ASSUME NEW i \in 1 .. n
        PROVE  f[i] <= t <=> i <= p - 1
    <3>1. f[i] \in Int
      BY <1>1
    <3>2. CASE i < p
      <4>1. f[i] <= t /\ i <= p - 1
        BY <1>1, <1>5, <2>1, <3>2
      <4>2. QED
        BY <4>1
    <3>3. CASE ~(i < p)
      <4>1. ~(f[i] <= t) /\ ~(i <= p - 1)
        BY <1>1, <1>5, <2>2, <3>1, <3>3
      <4>2. QED
        BY <4>1
    <3>4. QED
      BY <3>2, <3>3
  <2>4. QED
    BY <1>1, <1>5, <2>3, WithinUnique
<1>7. \A j \in Int : j < t => Within(f, j) < p
  <2>1. SUFFICES ASSUME NEW j \in Int, j < t, ~(Within(f, j) < p)
                 PROVE  FALSE
    OBVIOUS
  <2> DEFINE c == Within(f, j)
  <2>2. c \in 0 .. n /\ \A i \in 1 .. n : f[i] <= j <=> i <= c
    BY <1>4
  <2>3. ~(c < p)
    BY <2>1
  <2> HIDE DEF c
  <2>4. p \in 1 .. n /\ p <= c
    BY <1>1, <1>5, <2>2, <2>3
  <2>5. f[p] <= j
    BY <2>2, <2>4
  <2>6. f[p] > t
    BY <1>3, <2>4
  <2>7. QED
    BY <1>1, <2>1, <2>4, <2>5, <2>6
<1>8. \A j \in Int : j >= t => Within(f, j) >= p - 1
  <2>1. SUFFICES ASSUME NEW j \in Int, j >= t, Within(f, j) < p - 1
                 PROVE  FALSE
    BY <1>4, <1>5
  <2> DEFINE c == Within(f, j)
  <2>2. c \in 0 .. n /\ \A i \in 1 .. n : f[i] <= j <=> i <= c
    BY <1>4
  <2>3. c < p - 1
    BY <2>1
  <2> HIDE DEF c
  <2>4. p - 1 \in 1 .. n
    BY <1>1, <1>5, <2>2, <2>3
  <2>5. p - 1 \in 1 .. p - 1
    BY <1>5, <2>4
  <2>6. f[p - 1] <= t
    BY <1>3, <2>5
  <2>7. f[p - 1] <= j
    BY <1>1, <2>1, <2>4, <2>6
  <2>8. p - 1 <= c
    BY <2>2, <2>4, <2>7
  <2>9. QED
    BY <1>5, <2>2, <2>3, <2>8
<1>9. ASSUME NEW j \in Int
      PROVE  Within(g, j) = C(j)
  <2> USE DEF C
  <2> DEFINE w == Within(f, j)
             c == C(j)
  <2>1. w \in 0 .. n /\ \A i \in 1 .. n : f[i] <= j <=> i <= w
    BY <1>4
  <2>2. (j < t => w < p) /\ (j >= t => w >= p - 1)
    BY <1>7, <1>8
  <2>3. c = IF j < t THEN w ELSE w + 1
    OBVIOUS
  <2> HIDE DEF w, c
  <2>4. c \in 0 .. n + 1
    BY <1>1, <2>1, <2>3
  <2>5. ASSUME NEW i \in 1 .. n + 1
        PROVE  g[i] <= j <=> i <= c
    <3>0. g[i] = IF i < p THEN f[i] ELSE IF i = p THEN t ELSE f[i - 1]
      BY <1>3
    <3>1. CASE i < p
      <4>1. i \in 1 .. n /\ g[i] = f[i]
        BY <1>1, <1>5, <3>0, <3>1
      <4>2. g[i] <= j <=> i <= w
        BY <2>1, <4>1
      <4>3. i <= w <=> i <= c
        BY <1>5, <2>1, <2>2, <2>3, <3>1
      <4>4. QED
        BY <4>2, <4>3
    <3>2. CASE i = p
      <4>1. g[i] = t
        BY <3>0, <3>2
      <4>2. CASE j < t
        <5>1. ~(g[i] <= j) /\ ~(i <= c)
          BY <2>1, <2>2, <2>3, <3>2, <4>1, <4>2
        <5>2. QED
          BY <5>1
      <4>3. CASE j >= t
        <5>1. g[i] <= j /\ i <= c
          BY <1>5, <2>1, <2>2, <2>3, <3>2, <4>1, <4>3
        <5>2. QED
          BY <5>1
      <4>4. QED
        BY <4>2, <4>3
    <3>3. CASE i > p
      <4>1. i - 1 \in 1 .. n /\ g[i] = f[i - 1]
        BY <1>1, <1>5, <3>0, <3>3
      <4>2. g[i] <= j <=> i - 1 <= w
        BY <2>1, <4>1
      <4>3. i - 1 <= w <=> i <= c
        BY <1>5, <2>1, <2>2, <2>3, <3>3
      <4>4. QED
        BY <4>2, <4>3
    <3>4. QED
      BY <1>5, <3>1, <3>2, <3>3
  <2>6. n + 1 \in Nat
    BY <1>1
  <2>7. Within(g, j) = c
    BY <1>1, <2>4, <2>5, <2>6, WithinUnique
  <2>8. QED
    BY <2>7 DEF c
<1> DEFINE a == Within(f, k - 1)
           b == Within(f, k)
           w == Waiting(s, f, k)
           v == Waiting(z, g, k)
           a2 == Within(g, k - 1)
           b2 == Within(g, k)
<1> HIDE DEF a, b, w, v, a2, b2
<1>10. /\ a \in 0 .. n /\ b \in a .. n /\ w \in Seq(S) /\ Len(w) = b - a
       /\ \A i \in 1 .. b - a : w[i] = s[a + i]
  <2>1. f \in SortedTimes(Len(s))
    BY <1>1 DEF n
  <2>2. IsSlice(S, w, s, a, b)
    BY <2>1, WaitingIs DEF a, b, w
  <2>3. QED
    BY <2>2 DEF IsSlice, n
<1>11. /\ a2 \in 0 .. n + 1 /\ b2 \in a2 .. n + 1 /\ v \in Seq(S) /\ Len(v) = b2 - a2
       /\ \A i \in 1 .. b2 - a2 : v[i] = z[a2 + i]
  <2>1. g \in SortedTimes(Len(z)) /\ Len(z) = n + 1
    BY <1>1, <1>2
  <2>2. IsSlice(S, v, z, a2, b2)
    BY <1>2, <2>1, WaitingIs DEF a2, b2, v
  <2>3. QED
    BY <1>2, <2>2 DEF IsSlice
<1>12. /\ a2 = IF k - 1 < t THEN a ELSE a + 1
       /\ b2 = IF k < t THEN b ELSE b + 1
  <2>1. k - 1 \in Int
    OBVIOUS
  <2>2. QED
    BY <1>9, <2>1 DEF C, a, b, a2, b2
<1>13. /\ k < t => b < p
       /\ k = t => b = p - 1
       /\ k > t => a >= p - 1
  <2>1. k > t => k - 1 >= t /\ k - 1 \in Int
    OBVIOUS
  <2>2. QED
    BY <1>6, <1>7, <1>8, <2>1 DEF a, b
<1>14. /\ Append(w, e) \in Seq(S) /\ Len(Append(w, e)) = Len(w) + 1
       /\ \A i \in 1 .. Len(w) : Append(w, e)[i] = w[i]
       /\ Append(w, e)[Len(w) + 1] = e
  BY <1>10, AppendProperties
<1>15. CASE k < t
  <2>1. a2 = a /\ b2 = b
    BY <1>12, <1>15
  <2>2. ASSUME NEW i \in 1 .. b - a
        PROVE  v[i] = w[i]
    <3>1. a + i \in 1 .. n + 1 /\ a + i < p
      BY <1>1, <1>5, <1>10, <1>13, <1>15
    <3>2. z[a + i] = s[a + i]
      BY <1>2, <3>1
    <3>3. QED
      BY <1>10, <1>11, <2>1, <3>2
  <2>3. v = w
    BY <1>10, <1>11, <2>1, <2>2, SeqEqual
  <2>4. QED
    BY <1>15, <2>3 DEF w, v, z
<1>16. CASE k = t
  <2>1. a2 = a /\ b2 = b + 1 /\ b = p - 1
    BY <1>12, <1>13, <1>16
  <2> DEFINE y == Append(w, e)
  <2>2. /\ y \in Seq(S) /\ Len(y) = b - a + 1
        /\ \A i \in 1 .. b - a : y[i] = w[i]
        /\ y[b - a + 1] = e
    BY <1>10, <1>14
  <2> HIDE DEF y
  <2>3. ASSUME NEW i \in 1 .. b - a + 1
        PROVE  v[i] = y[i]
    <3>0. v[i] = z[a + i] /\ a + i \in 1 .. n + 1
      <4>1. b2 - a2 = b - a + 1
        BY <1>10, <2>1
      <4>2. QED
        BY <1>1, <1>10, <1>11, <2>1, <4>1
    <3>1. CASE i = b - a + 1
      <4>1. a + i = p
        BY <1>10, <2>1, <3>1
      <4>2. QED
        BY <1>2, <1>5, <2>2, <3>0, <3>1, <4>1
    <3>2. CASE i # b - a + 1
      <4>1. i \in 1 .. b - a /\ a + i < p
        BY <1>10, <2>1, <3>2
      <4>2. z[a + i] = s[a + i]
        BY <1>2, <3>0, <4>1
      <4>3. QED
        BY <1>10, <2>2, <3>0, <4>1, <4>2
    <3>3. QED
      BY <3>1, <3>2
  <2>4. Len(v) = b - a + 1
    BY <1>10, <1>11, <2>1
  <2>5. v = y
    BY <1>11, <2>2, <2>3, <2>4, SeqEqual
  <2>6. QED
    BY <1>16, <2>5 DEF w, v, y, z
<1>17. CASE k > t
  <2>1. a2 = a + 1 /\ b2 = b + 1
    <3>1. k - 1 >= t
      BY <1>17
    <3>2. QED
      BY <1>12, <1>17, <3>1
  <2>2. ASSUME NEW i \in 1 .. b - a
        PROVE  v[i] = w[i]
    <3>1. a2 + i \in 1 .. n + 1 /\ a2 + i > p /\ (a2 + i) - 1 = a + i
      BY <1>1, <1>5, <1>10, <1>13, <1>17, <2>1
    <3>2. z[a2 + i] = s[(a2 + i) - 1]
      BY <1>2, <1>5, <3>1
    <3>3. i \in 1 .. b2 - a2
      BY <1>10, <2>1
    <3>4. QED
      BY <1>10, <1>11, <3>1, <3>2, <3>3
  <2>3. Len(v) = Len(w)
    BY <1>10, <1>11, <2>1
  <2>4. v = w
    BY <1>10, <1>11, <2>2, <2>3, SeqEqual
  <2>5. QED
    BY <1>17, <2>4 DEF w, v, z
<1>18. QED
  BY <1>15, <1>16, <1>17

(* The time at position p leaves the sorted times f of n reminders, and g  *)
(* are the times then.                                                     *)
TimeRemoved(n, f, p, g) ==
  /\ f \in SortedTimes(n) /\ g \in SortedTimes(n - 1)
  /\ \A j \in 1 .. n - 1 : g[j] = IF j < p THEN f[j] ELSE f[j + 1]

(* A reminder that leaves the list leaves those that wait as long as it    *)
(* does, and the order of all the others is as it was.                     *)
LEMMA RemoveWaiting ==
  ASSUME NEW S, NEW s \in Seq(S), IsInjective(s), NEW p \in 1 .. Len(s),
         NEW f, NEW g, TimeRemoved(Len(s), f, p, g), NEW k \in Int
  PROVE  /\ Waiting(RemoveAt(s, p), g, k) = RemoveFirst(Waiting(s, f, k), s[p])
         /\ f[p] # k => s[p] \notin Range(Waiting(s, f, k))
<1> DEFINE n == Len(s)
           z == RemoveAt(s, p)
           t == f[p]
           h == k - 1
           C(j) == IF j < t THEN Within(f, j) ELSE Within(f, j) - 1
<1> HIDE DEF n, z, t, h, C
<1>1. /\ n \in Nat /\ p \in 1 .. n /\ t \in Int /\ f \in SortedTimes(n)
      /\ g \in SortedTimes(n - 1) /\ n - 1 \in Nat /\ h \in Int
      /\ \A i \in 1 .. n : f[i] \in Int
  BY LenProperties, SMTT(30) DEF TimeRemoved, SortedTimes, n, t, h
<1>2. /\ z \in Seq(S) /\ Len(z) = n - 1
      /\ \A j \in 1 .. n - 1 : z[j] = IF j < p THEN s[j] ELSE s[j + 1]
  BY RemoveAtElements DEF z, n
<1>3. \A j \in 1 .. n - 1 : g[j] = IF j < p THEN f[j] ELSE f[j + 1]
  BY DEF TimeRemoved, n
<1>4. \A j \in Int : Within(f, j) \in 0 .. n /\ \A i \in 1 .. n : f[i] <= j <=> i <= Within(f, j)
  BY <1>1, WithinIs
<1>5. ASSUME NEW j \in Int
      PROVE  /\ j < t => Within(f, j) < p
             /\ j >= t => Within(f, j) >= p
  <2>1. Within(f, j) \in 0 .. n /\ (f[p] <= j <=> p <= Within(f, j))
    BY <1>1, <1>4
  <2>2. QED
    BY <1>1, <2>1 DEF t
<1>6. ASSUME NEW j \in Int
      PROVE  Within(g, j) = C(j)
  <2> DEFINE w == Within(f, j)
             c == C(j)
  <2> HIDE DEF w, c
  <2>1. w \in 0 .. n /\ \A i \in 1 .. n : f[i] <= j <=> i <= w
    BY <1>4 DEF w
  <2>2. (j < t => w < p) /\ (j >= t => w >= p)
    BY <1>5 DEF w
  <2>3. c = IF j < t THEN w ELSE w - 1
    BY DEF c, w, C
  <2>4. c \in 0 .. n - 1
    BY <1>1, <2>1, <2>2, <2>3
  <2>5. ASSUME NEW i \in 1 .. n - 1
        PROVE  g[i] <= j <=> i <= c
    <3>1. CASE i < p
      <4>1. i \in 1 .. n /\ g[i] = f[i]
        BY <1>1, <1>3, <3>1
      <4>2. g[i] <= j <=> i <= w
        BY <2>1, <4>1
      <4>3. i <= w <=> i <= c
        BY <1>1, <2>1, <2>2, <2>3, <3>1
      <4>4. QED
        BY <4>2, <4>3
    <3>2. CASE i >= p
      <4>1. i + 1 \in 1 .. n /\ g[i] = f[i + 1]
        BY <1>1, <1>3, <3>2
      <4>2. g[i] <= j <=> i + 1 <= w
        BY <2>1, <4>1
      <4>3. i + 1 <= w <=> i <= c
        BY <1>1, <2>1, <2>2, <2>3, <3>2
      <4>4. QED
        BY <4>2, <4>3
    <3>3. QED
      BY <1>1, <3>1, <3>2
  <2>6. Within(g, j) = c
    BY <1>1, <2>4, <2>5, WithinUnique
  <2>7. QED
    BY <2>6 DEF c
<1> DEFINE a == Within(f, h)
           b == Within(f, k)
           w == Waiting(s, f, k)
           v == Waiting(z, g, k)
           a2 == Within(g, h)
           b2 == Within(g, k)
<1> HIDE DEF a, b, w, v, a2, b2
<1>7. /\ a \in 0 .. n /\ b \in a .. n /\ w \in Seq(S) /\ Len(w) = b - a
      /\ \A i \in 1 .. b - a : w[i] = s[a + i]
  <2>1. f \in SortedTimes(Len(s)) /\ h = k - 1
    BY <1>1 DEF n, h
  <2>2. IsSlice(S, w, s, a, b)
    BY <1>1, <2>1, WaitingIs DEF a, b, w
  <2>3. QED
    BY <2>2 DEF IsSlice, n
<1>8. /\ a2 \in 0 .. n - 1 /\ b2 \in a2 .. n - 1 /\ v \in Seq(S) /\ Len(v) = b2 - a2
      /\ \A i \in 1 .. b2 - a2 : v[i] = z[a2 + i]
  <2>1. g \in SortedTimes(Len(z)) /\ h = k - 1
    BY <1>1, <1>2 DEF h
  <2>2. IsSlice(S, v, z, a2, b2)
    BY <1>1, <1>2, <2>1, WaitingIs DEF a2, b2, v
  <2>3. QED
    BY <1>2, <2>2 DEF IsSlice
<1>9. /\ a2 = IF h < t THEN a ELSE a - 1
      /\ b2 = IF k < t THEN b ELSE b - 1
  BY <1>1, <1>6 DEF C, a, b, a2, b2
<1>10. /\ k < t => b < p
       /\ k >= t => b >= p
       /\ h < t => a < p
       /\ h >= t => a >= p
  BY <1>1, <1>5 DEF a, b
<1>11. h = k - 1
  BY DEF h
<1>12. \A i, j \in 1 .. n : s[i] = s[j] => i = j
  BY LenProperties DEF IsInjective, n
<1>13. \A i \in 1 .. b - a : a + i \in 1 .. n /\ (w[i] = s[p] <=> a + i = p)
  BY <1>1, <1>7, <1>12
<1>14. CASE k # t
  <2>1. b2 - a2 = b - a /\ (k < t => a2 = a) /\ (k > t => a2 = a - 1)
    BY <1>1, <1>7, <1>9, <1>11, <1>14
  <2>2. s[p] \notin Range(w)
    <3>1. \A i \in 1 .. b - a : a + i # p
      BY <1>1, <1>7, <1>10, <1>11, <1>14
    <3>2. QED
      BY <1>7, <1>13, <3>1, LenProperties DEF Range
  <2>3. ASSUME NEW i \in 1 .. b - a
        PROVE  v[i] = w[i]
    <3>1. v[i] = z[a2 + i] /\ w[i] = s[a + i]
      BY <1>7, <1>8, <2>1
    <3>2. a2 + i \in 1 .. n - 1
      BY <1>1, <1>7, <1>8, <2>1
    <3>3. CASE k < t
      <4>1. a2 + i < p /\ a2 = a
        BY <1>1, <1>7, <1>10, <2>1, <3>3
      <4>2. QED
        BY <1>2, <3>1, <3>2, <4>1
    <3>4. CASE k > t
      <4>1. ~(a2 + i < p) /\ (a2 + i) + 1 = a + i
        BY <1>1, <1>7, <1>10, <1>11, <2>1, <3>4
      <4>2. QED
        BY <1>2, <3>1, <3>2, <4>1
    <3>5. QED
      BY <1>1, <1>14, <3>3, <3>4
  <2>4. v = w
    BY <1>7, <1>8, <2>1, <2>3, SeqEqual
  <2>5. RemoveFirst(w, s[p]) = w
    BY <1>7, <2>2, RemoveFirstAbsent
  <2>6. QED
    BY <2>2, <2>4, <2>5 DEF w, v, z
<1>15. CASE k = t
  <2> DEFINE m == p - a
             y == RemoveAt(w, m)
  <2> HIDE DEF m, y
  <2>1. /\ a2 = a /\ b2 = b - 1 /\ m \in 1 .. b - a /\ a + m = p
    BY <1>1, <1>7, <1>9, <1>10, <1>11, <1>15 DEF m
  <2>2. /\ y \in Seq(S) /\ Len(y) = b - a - 1
        /\ \A i \in 1 .. b - a - 1 : y[i] = IF i < m THEN w[i] ELSE w[i + 1]
    <3>1. m \in 1 .. Len(w)
      BY <1>7, <2>1
    <3>2. /\ y \in Seq(S) /\ Len(y) = Len(w) - 1
          /\ \A i \in 1 .. Len(w) - 1 : y[i] = IF i < m THEN w[i] ELSE w[i + 1]
      BY <1>7, <3>1, RemoveAtElements DEF y
    <3>3. QED
      BY <1>7, <3>2
  <2>3. RemoveFirst(w, s[p]) = y
    <3>1. m \in 1 .. Len(w) /\ w[m] = s[p]
      BY <1>7, <2>1
    <3>2. IsInjective(w)
      <4>1. DOMAIN w = 1 .. b - a
        BY <1>7, LenProperties
      <4>2. \A i, j \in 1 .. b - a : w[i] = w[j] => i = j
        <5>1. SUFFICES ASSUME NEW i \in 1 .. b - a, NEW j \in 1 .. b - a, w[i] = w[j]
                       PROVE  i = j
          OBVIOUS
        <5>2. a + i \in 1 .. n /\ a + j \in 1 .. n /\ s[a + i] = s[a + j]
          BY <1>7, <1>13, <5>1
        <5>3. a + i = a + j
          BY <1>12, <5>2
        <5>4. QED
          BY <1>7, <5>3
      <4>3. QED
        BY <4>1, <4>2 DEF IsInjective
    <3>3. QED
      BY <1>7, <3>1, <3>2, RemoveFirstIsRemoveAt DEF y
  <2>4. ASSUME NEW i \in 1 .. b - a - 1
        PROVE  v[i] = y[i]
    <3>1. v[i] = z[a + i] /\ a + i \in 1 .. n - 1
      BY <1>1, <1>7, <1>8, <2>1
    <3>2. CASE i < m
      <4>1. a + i < p /\ i \in 1 .. b - a
        BY <1>1, <1>7, <2>1, <3>2
      <4>2. z[a + i] = s[a + i] /\ w[i] = s[a + i]
        BY <1>2, <1>7, <3>1, <4>1
      <4>3. QED
        BY <2>2, <3>1, <3>2, <4>2
    <3>3. CASE i >= m
      <4>1. ~(a + i < p) /\ i + 1 \in 1 .. b - a /\ (a + i) + 1 = a + (i + 1)
        BY <1>1, <1>7, <2>1, <3>3
      <4>2. z[a + i] = s[(a + i) + 1] /\ w[i + 1] = s[a + (i + 1)]
        BY <1>2, <1>7, <3>1, <4>1
      <4>3. ~(i < m)
        BY <1>7, <2>1, <3>3
      <4>4. QED
        BY <2>2, <3>1, <4>1, <4>2, <4>3
    <3>4. QED
      BY <1>7, <2>1, <3>2, <3>3
  <2>5. Len(v) = Len(y) /\ Len(v) = b - a - 1
    BY <1>7, <1>8, <2>1, <2>2, SMTT(30)
  <2>6. v = y
    BY <1>8, <2>2, <2>4, <2>5, SeqEqual
  <2>7. QED
    BY <1>15, <2>3, <2>6 DEF w, v, z, t
<1>16. t = f[p]
  BY DEF t
<1>17. QED
  BY <1>14, <1>15, <1>16

(* When a tick passes for every reminder, those that waited k + 1 ticks    *)
(* wait k.                                                                 *)
LEMMA ShiftWaiting ==
  ASSUME NEW n \in Nat, NEW f \in SortedTimes(n), NEW g \in SortedTimes(n), NEW s,
         \A i \in 1 .. n : g[i] = f[i] - 1, NEW k \in Int
  PROVE  Waiting(s, g, k) = Waiting(s, f, k + 1)
<1>1. /\ DOMAIN f = 1 .. n /\ DOMAIN g = 1 .. n
      /\ \A i \in 1 .. n : f[i] \in Int /\ g[i] \in Int
  BY DEF SortedTimes
<1>2. ASSUME NEW j \in Int
      PROVE  Within(g, j) = Within(f, j + 1)
  <2>1. {i \in DOMAIN g : g[i] <= j} = {i \in DOMAIN f : f[i] <= j + 1}
    BY <1>1
  <2>2. QED
    BY <2>1 DEF Within
<1>3. Within(g, k) = Within(f, k + 1) /\ Within(g, k - 1) = Within(f, k)
  <2>1. (k - 1) + 1 = k /\ k - 1 \in Int
    OBVIOUS
  <2>2. Within(g, k - 1) = Within(f, (k - 1) + 1)
    BY <1>2, <2>1
  <2>3. QED
    BY <1>2, <2>1, <2>2
<1>4. (k + 1) - 1 = k
  OBVIOUS
<1>5. QED
  BY <1>3, <1>4 DEF Waiting

-----------------------------------------------------------------------------
(* The agenda, for any users with names of their own.                      *)

DistinctNames(us) ==
  \A u, v \in DOMAIN us : us[u].user_name = us[v].user_name => u = v

(* The agenda has what each user lists under the name of the user.         *)
LEMMA AgendaIs ==
  ASSUME NEW us, DistinctNames(us), NEW u \in DOMAIN us
  PROVE  /\ us[u].user_name \in DOMAIN AgendaOf(us)
         /\ AgendaOf(us)[us[u].user_name] = us[u].notifications_list
<1> DEFINE n == us[u].user_name
           w == CHOOSE v \in DOMAIN us : us[v].user_name = n
<1>1. w \in DOMAIN us /\ us[w].user_name = n
  OBVIOUS
<1>2. w = u
  BY <1>1 DEF DistinctNames
<1>3. n \in NamesIn(us)
  BY DEF NamesIn
<1>4. AgendaOf(us)[n] = us[w].notifications_list
  BY <1>3 DEF AgendaOf
<1>5. DOMAIN AgendaOf(us) = NamesIn(us)
  BY DEF AgendaOf
<1>6. QED
  BY <1>2, <1>3, <1>4, <1>5

(* It is the only function on the names that does.                         *)
LEMMA AgendaUnique ==
  ASSUME NEW us, DistinctNames(us), NEW G, G = [n \in NamesIn(us) |-> G[n]],
         \A u \in DOMAIN us : G[us[u].user_name] = us[u].notifications_list
  PROVE  AgendaOf(us) = G
<1>1. ASSUME NEW n \in NamesIn(us)
      PROVE  AgendaOf(us)[n] = G[n]
  <2>1. PICK u \in DOMAIN us : us[u].user_name = n
    BY DEF NamesIn
  <2>2. QED
    BY <2>1, AgendaIs
<1>2. AgendaOf(us) = [n \in NamesIn(us) |-> AgendaOf(us)[n]]
  BY DEF AgendaOf
<1>3. QED
  BY <1>1, <1>2

(* A new user starts with an empty agenda.                                 *)
LEMMA AgendaPut ==
  ASSUME NEW us, NEW vs, NEW u, NEW n, u \notin DOMAIN us, DistinctNames(us), DistinctNames(vs),
         vs = Put(us, u, [user_name |-> n, notifications_list |-> << >>])
  PROVE  /\ n \notin DOMAIN AgendaOf(us)
         /\ AgendaOf(vs) = [m \in DOMAIN AgendaOf(us) \cup {n} |->
                              IF m = n THEN << >> ELSE AgendaOf(us)[m]]
<1> DEFINE w == [user_name |-> n, notifications_list |-> << >>]
           A == AgendaOf(us)
           G == [m \in DOMAIN A \cup {n} |-> IF m = n THEN << >> ELSE A[m]]
<1>0. vs = Put(us, u, w) /\ w.user_name = n /\ w.notifications_list = << >>
  OBVIOUS
<1> HIDE DEF w
<1>1. /\ DOMAIN vs = DOMAIN us \cup {u} /\ vs[u] = w
      /\ \A x \in DOMAIN us : x # u /\ vs[x] = us[x]
  BY <1>0 DEF Put
<1>2. DistinctNames(vs)
  OBVIOUS
<1>3. DOMAIN A = NamesIn(us)
  BY DEF AgendaOf
<1> HIDE DEF A
<1>4. NamesIn(vs) = NamesIn(us) \cup {n}
  BY <1>0, <1>1, ZenonT(30) DEF NamesIn
<1>5. \A x \in DOMAIN us : us[x].user_name # n
  BY <1>0, <1>1, <1>2 DEF DistinctNames
<1>6. n \notin DOMAIN A
  BY <1>3, <1>5 DEF NamesIn
<1>7. \A x \in DOMAIN us : us[x].user_name \in DOMAIN A /\ A[us[x].user_name] = us[x].notifications_list
  BY AgendaIs DEF A
<1>8. \A x \in DOMAIN vs : G[vs[x].user_name] = vs[x].notifications_list
  BY <1>0, <1>1, <1>5, <1>7
<1>9. G = [m \in NamesIn(vs) |-> G[m]]
  BY <1>3, <1>4
<1> HIDE DEF G
<1>10. AgendaOf(vs) = G
  BY <1>2, <1>8, <1>9, AgendaUnique
<1>11. QED
  BY <1>6, <1>10 DEF A, G

(* A user takes the agenda along.                                          *)
LEMMA AgendaDrop ==
  ASSUME NEW us, NEW u \in DOMAIN us, DistinctNames(us)
  PROVE  AgendaOf(Drop(us, u)) =
           [m \in DOMAIN AgendaOf(us) \ {us[u].user_name} |-> AgendaOf(us)[m]]
<1> DEFINE vs == Drop(us, u)
           A == AgendaOf(us)
           G == [m \in DOMAIN A \ {us[u].user_name} |-> A[m]]
<1>1. DOMAIN vs = DOMAIN us \ {u} /\ \A x \in DOMAIN vs : vs[x] = us[x]
  BY DEF Drop
<1>2. DistinctNames(vs)
  BY <1>1 DEF DistinctNames
<1>3. DOMAIN A = NamesIn(us)
  BY DEF AgendaOf
<1> HIDE DEF vs, A
<1>4. \A x \in DOMAIN vs : us[x].user_name # us[u].user_name
  BY <1>1 DEF DistinctNames
<1>5. NamesIn(vs) = NamesIn(us) \ {us[u].user_name}
  <2>1. NamesIn(vs) \subseteq NamesIn(us) \ {us[u].user_name}
    BY <1>1, <1>4 DEF NamesIn
  <2>2. NamesIn(us) \ {us[u].user_name} \subseteq NamesIn(vs)
    BY <1>1 DEF NamesIn
  <2>3. QED
    BY <2>1, <2>2
<1>6. \A x \in DOMAIN us : us[x].user_name \in DOMAIN A /\ A[us[x].user_name] = us[x].notifications_list
  BY AgendaIs DEF A
<1>7. \A x \in DOMAIN vs : G[vs[x].user_name] = vs[x].notifications_list
  BY <1>1, <1>4, <1>6
<1>8. G = [n \in NamesIn(vs) |-> G[n]]
  BY <1>3, <1>5
<1> HIDE DEF G
<1>9. AgendaOf(vs) = G
  BY <1>2, <1>7, <1>8, AgendaUnique
<1>10. QED
  BY <1>9 DEF vs, A, G

(* A user whose list changes changes its own agenda only.                  *)
LEMMA AgendaChange ==
  ASSUME NEW us, NEW vs, NEW u \in DOMAIN us, NEW l, DistinctNames(us),
         DOMAIN vs = DOMAIN us, vs[u].user_name = us[u].user_name,
         vs[u].notifications_list = l, \A x \in DOMAIN us \ {u} : vs[x] = us[x]
  PROVE  /\ NamesIn(vs) = DOMAIN AgendaOf(us)
         /\ DistinctNames(vs)
         /\ AgendaOf(vs) = [AgendaOf(us) EXCEPT ![us[u].user_name] = l]
<1> DEFINE A == AgendaOf(us)
           G == [A EXCEPT ![us[u].user_name] = l]
<1>1. \A x \in DOMAIN us : vs[x].user_name = us[x].user_name
  OBVIOUS
<1>2. DistinctNames(vs)
  BY <1>1 DEF DistinctNames
<1>3. DOMAIN A = NamesIn(us) /\ A = [n \in NamesIn(us) |-> A[n]]
  BY DEF AgendaOf
<1> HIDE DEF A
<1>4. NamesIn(vs) = NamesIn(us)
  BY <1>1 DEF NamesIn
<1>5. \A x \in DOMAIN us : us[x].user_name \in DOMAIN A /\ A[us[x].user_name] = us[x].notifications_list
  BY AgendaIs DEF A
<1>6. \A x \in DOMAIN us \ {u} : us[x].user_name # us[u].user_name
  BY DEF DistinctNames
<1>7. \A x \in DOMAIN vs : G[vs[x].user_name] = vs[x].notifications_list
  BY <1>1, <1>5, <1>6
<1>8. G = [n \in NamesIn(vs) |-> G[n]]
  BY <1>3, <1>4
<1> HIDE DEF G
<1>9. AgendaOf(vs) = G
  BY <1>2, <1>7, <1>8, AgendaUnique
<1>10. QED
  BY <1>2, <1>3, <1>4, <1>9 DEF A, G

-----------------------------------------------------------------------------

(* What the lists must satisfy to stand for a calendar.                    *)
CalendarInv ==
  /\ HeapInv
  /\ DistinctNames(user)
  /\ TicksLeft \in SortedTimes(Len(reminders_list))
  /\ \A r \in DOMAIN reminder : reminder[r].ellapse_time \in 1 .. Horizon

(* Steps that leave the reminders alone leave the calendar's times alone,  *)
(* and steps that leave the users alone its agenda.                        *)
LEMMA SameDue ==
  ASSUME UNCHANGED <<reminders_list, reminder, tick, closing>>
  PROVE  Due' = Due
<1>1. TicksLeft' = TicksLeft
  BY DEF TicksLeft, Left
<1>2. QED
  BY <1>1 DEF Due

LEMMA SameAgenda == user' = user => Agenda' = Agenda
BY DEF Agenda

(* A step that changes neither is no step of the calendar.                 *)
LEMMA SameCalendar ==
  ASSUME Agenda' = Agenda, Due' = Due
  PROVE  [Refined!Next]_Refined!vars
BY DEF Refined!vars

(* A new user registers.                                                   *)
LEMMA AddNewUserRefines ==
  ASSUME CalendarInv, CalendarInv', NEW name \in UserName, AddNewUser(name)
  PROVE  [Refined!Next]_Refined!vars
<1>1. Due' = Due
  BY SameDue DEF AddNewUser
<1>2. CASE user' = user
  BY <1>1, <1>2, SameAgenda, SameCalendar
<1>3. CASE ~(user' = user)
  <2>1. PICK u \in UserBlock \ DOMAIN user :
          user' = Put(user, u, [user_name |-> name, notifications_list |-> << >>])
    BY <1>3 DEF AddNewUser
  <2>2. DistinctNames(user) /\ DistinctNames(user')
    BY DEF CalendarInv
  <2>3. /\ name \notin DOMAIN AgendaOf(user)
        /\ AgendaOf(user') = [m \in DOMAIN AgendaOf(user) \cup {name} |->
                                IF m = name THEN << >> ELSE AgendaOf(user)[m]]
    BY <2>1, <2>2, AgendaPut
  <2>4. Refined!Register(name)
    BY <1>1, <2>3 DEF Refined!Register, Agenda
  <2>5. QED
    BY <2>4 DEF Refined!Next
<1>4. QED
  BY <1>2, <1>3

(* A user who is removed leaves.                                           *)
LEMMA RemoveUserRefines ==
  ASSUME CalendarInv, CalendarInv', NEW name \in UserName, ClientRemovesUser(name)
  PROVE  [Refined!Next]_Refined!vars
<1>1. Due' = Due
  BY SameDue DEF ClientRemovesUser, RemoveUser
<1>2. CASE user' = user
  BY <1>1, <1>2, SameAgenda, SameCalendar
<1>3. CASE ~(user' = user)
  <2>1. PICK i \in DOMAIN users_list :
          FindUserEntry(i, name) /\ user' = Drop(user, users_list[i])
    BY <1>3 DEF ClientRemovesUser, RemoveUser
  <2> DEFINE u == users_list[i]
  <2>2. u \in DOMAIN user
    BY EntryIsUser DEF CalendarInv
  <2>3. user[u].user_name = name /\ user[u].notifications_list = << >> /\ user' = Drop(user, u)
    BY <2>1 DEF ClientRemovesUser, FindUserEntry
  <2> HIDE DEF u
  <2>4. DistinctNames(user)
    BY DEF CalendarInv
  <2>5. name \in DOMAIN AgendaOf(user) /\ AgendaOf(user)[name] = << >>
    BY <2>2, <2>3, <2>4, AgendaIs
  <2>6. AgendaOf(user') = [m \in DOMAIN AgendaOf(user) \ {name} |-> AgendaOf(user)[m]]
    BY <2>2, <2>3, <2>4, AgendaDrop
  <2>7. Refined!Leave(name)
    BY <1>1, <2>5, <2>6 DEF Refined!Leave, Agenda
  <2>8. QED
    BY <2>7 DEF Refined!Next
<1>4. QED
  BY <1>2, <1>3

(* Every reminder in an agenda is allocated.                               *)
LEMMA ScheduledIsAllocated ==
  ASSUME CalendarInv
  PROVE  Refined!Scheduled \subseteq DOMAIN reminder
<1>1. ASSUME NEW n \in DOMAIN Agenda
      PROVE  Range(Agenda[n]) \subseteq DOMAIN reminder
  <2>1. DOMAIN Agenda = NamesIn(user) /\ DistinctNames(user)
    BY DEF Agenda, AgendaOf, CalendarInv
  <2>2. PICK u \in DOMAIN user : user[u].user_name = n
    BY <2>1 DEF NamesIn
  <2>3. Agenda[n] = user[u].notifications_list
    BY <2>1, <2>2, AgendaIs DEF Agenda
  <2>4. QED
    BY <2>3 DEF CalendarInv, HeapInv, NoDanglingPointers
<1>2. QED
  BY <1>1 DEF Refined!Scheduled, Refined!Range, Range

(* A reminder that is added is scheduled.                                  *)
LEMMA AddUserReminderRefines ==
  ASSUME CalendarInv, CalendarInv', NEW name \in UserName, NEW t \in Times, Times \subseteq 1 .. Horizon,
         AddUserReminder(name, t)
  PROVE  [Refined!Next]_Refined!vars
<1>1. tick = 0 /\ tick' = 0 /\ ~closing /\ ~closing' /\ t \in Int /\ t \in 1 .. Horizon
  BY RemindersAssumption DEF AddUserReminder, Idle
<1>2. CASE UNCHANGED <<reminders_list, user, reminder>>
  <2>1. Due' = Due
    BY <1>2, SameDue DEF AddUserReminder
  <2>2. QED
    BY <1>2, <2>1, SameAgenda, SameCalendar
<1>3. ASSUME NEW i \in DOMAIN users_list, NEW r \in ReminderBlock \ DOMAIN reminder,
             NEW p \in 1 .. Len(reminders_list) + 1,
             FindUserEntry(i, name), InsertPosition(p, t),
             user' = [user EXCEPT ![users_list[i]].notifications_list = Append(@, r)],
             reminders_list' = InsertAt(reminders_list, p, r),
             reminder' = Put(reminder, r, [belongs_to |-> users_list[i], ellapse_time |-> t])
      PROVE  [Refined!Next]_Refined!vars
  <2> DEFINE u == users_list[i]
             l == user[u].notifications_list
             n == Len(reminders_list)
             s == reminders_list
             f == TicksLeft
             g == TicksLeft'
  <2>1. u \in DOMAIN user /\ user[u] \in user_t /\ user[u].user_name = name
    BY <1>3, EntryIsUser DEF CalendarInv, FindUserEntry
  <2>2. /\ DOMAIN user' = DOMAIN user
        /\ user'[u].notifications_list = Append(l, r)
        /\ user'[u].user_name = user[u].user_name
        /\ \A v \in DOMAIN user \ {u} : user'[v] = user[v]
    BY <1>3, <2>1 DEF user_t
  <2> HIDE DEF u, l, n, s, f, g
  <2>3. /\ name \in DOMAIN Agenda /\ Agenda[name] = l
        /\ Agenda' = [Agenda EXCEPT ![name] = Append(l, r)]
    <3>1. DistinctNames(user)
      BY DEF CalendarInv
    <3>2. AgendaOf(user') = [AgendaOf(user) EXCEPT ![name] = Append(l, r)]
      BY <2>1, <2>2, <3>1, AgendaChange
    <3>3. name \in DOMAIN AgendaOf(user) /\ AgendaOf(user)[name] = l
      BY <2>1, <3>1, AgendaIs DEF l
    <3>4. QED
      BY <3>2, <3>3 DEF Agenda
  <2>4. r \notin Refined!Scheduled
    BY ScheduledIsAllocated
  <2>5. /\ n \in Nat /\ s \in Seq(ReminderBlock) /\ DOMAIN s = 1 .. n /\ Len(s) = n
        /\ s' \in Seq(ReminderBlock) /\ DOMAIN s' = 1 .. n + 1 /\ Len(s') = n + 1
        /\ \A j \in 1 .. n + 1 : s'[j] = IF j < p THEN s[j] ELSE IF j = p THEN r ELSE s[j - 1]
    <3>1. s \in Seq(ReminderBlock) /\ n \in Nat /\ n = Len(s) /\ s' = InsertAt(s, p, r)
      BY <1>3, LenProperties DEF CalendarInv, HeapInv, TypeOK, s, n
    <3>2. p \in 1 .. Len(s) + 1 /\ r \in ReminderBlock
      BY DEF s
    <3> DEFINE z == InsertAt(s, p, r)
    <3> HIDE DEF z
    <3>3. /\ z \in Seq(ReminderBlock) /\ Len(z) = Len(s) + 1
          /\ \A j \in 1 .. Len(s) + 1 :
               z[j] = IF j < p THEN s[j] ELSE IF j = p THEN r ELSE s[j - 1]
      BY <3>1, <3>2, InsertAtElements, SMTT(30) DEF z
    <3>4. DOMAIN z = 1 .. Len(z) /\ DOMAIN s = 1 .. Len(s)
      BY <3>1, <3>3, LenProperties
    <3>5. s' = z
      BY <3>1 DEF z
    <3>6. QED
      BY <3>1, <3>3, <3>4, <3>5
  <2>6. \A j \in 1 .. n : f[j] = reminder[s[j]].ellapse_time /\ s[j] \in DOMAIN reminder
    BY <1>1, <2>5, EntryIsReminder DEF TicksLeft, Left, f, s, CalendarInv
  <2>7. \A j \in 1 .. n + 1 : g[j] = reminder'[s'[j]].ellapse_time
    BY <1>1, <2>5 DEF TicksLeft, Left, g, s
  <2>8. /\ \A q \in DOMAIN reminder : reminder'[q] = reminder[q]
        /\ reminder'[r].ellapse_time = t
    BY <1>3 DEF Put
  <2>9. ASSUME NEW j \in 1 .. n + 1
        PROVE  g[j] = IF j < p THEN f[j] ELSE IF j = p THEN t ELSE f[j - 1]
    <3>1. CASE j < p
      <4>1. j \in 1 .. n
        BY <2>5, <3>1 DEF s
      <4>2. QED
        BY <2>5, <2>6, <2>7, <2>8, <3>1, <4>1
    <3>2. CASE j = p
      BY <2>5, <2>7, <2>8, <3>2
    <3>3. CASE j > p
      <4>1. j - 1 \in 1 .. n
        BY <2>5, <3>3
      <4>2. QED
        BY <2>5, <2>6, <2>7, <2>8, <3>3, <4>1, SMTT(30)
    <3>4. QED
      BY <2>5, <3>1, <3>2, <3>3
  <2>10. /\ \A j \in 1 .. p - 1 : f[j] <= t
         /\ p <= n => f[p] > t
    <3>1. /\ \A j \in 1 .. p - 1 : reminder[s[j]].ellapse_time <= t
          /\ p <= n => reminder[s[p]].ellapse_time > t
      BY <1>3 DEF InsertPosition, s, n
    <3>2. \A j \in 1 .. p - 1 : j \in 1 .. n
      BY <2>5 DEF s
    <3>3. p <= n => p \in 1 .. n
      BY <2>5
    <3>4. QED
      BY <2>6, <3>1, <3>2, <3>3
  <2>11. f \in SortedTimes(n) /\ g \in SortedTimes(n + 1)
    <3>1. TicksLeft' \in SortedTimes(Len(s'))
      BY DEF CalendarInv, s
    <3>2. QED
      BY <2>5, <3>1 DEF CalendarInv, f, g, n
  <2>12. TimeInserted(n, f, p, t, g)
    BY <2>9, <2>10, <2>11 DEF TimeInserted
  <2>13. ASSUME NEW k \in 0 .. Horizon
         PROVE  Waiting(s', g, k) = IF k = t THEN Append(Waiting(s, f, k), r) ELSE Waiting(s, f, k)
    <3>1. p \in 1 .. Len(s) + 1 /\ r \in ReminderBlock /\ k \in Int
      BY DEF s
    <3>2. TimeInserted(Len(s), f, p, t, g) /\ s' = InsertAt(s, p, r)
      BY <1>3, <2>5, <2>12 DEF s
    <3>3. QED
      BY <1>1, <2>5, <3>1, <3>2, InsertWaiting
  <2>14. Due = [k \in 0 .. Horizon |-> Waiting(s, f, k)]
    BY <1>1 DEF Due, s, f
  <2>15. Due' = [k \in 0 .. Horizon |-> Waiting(s', g, k)]
    BY <1>1 DEF Due, s, g
  <2>16. Due' = [Due EXCEPT ![t] = Append(Due[t], r)]
    BY <1>1, <2>13, <2>14, <2>15
  <2>17. Refined!Schedule(name, r, t)
    BY <2>3, <2>4, <2>16 DEF Refined!Schedule
  <2>18. r \in ReminderBlock
    OBVIOUS
  <2>19. QED
    BY <1>1, <2>17, <2>18 DEF Refined!Next
<1>4. QED
  BY <1>2, <1>3 DEF AddUserReminder

(* The calendar's RemoveFirst is that of the model.                        *)
LEMMA SameRemoveFirst ==
  ASSUME NEW s, NEW e
  PROVE  Refined!RemoveFirst(s, e) = RemoveFirst(s, e)
BY DEF Refined!RemoveFirst, RemoveFirst, Refined!SelectInSeq, SelectInSeq,
       Refined!RemoveAt, RemoveAt, Refined!Min, Min

(* The reminder at position p leaves the list: nothing else changes in the *)
(* calendar.                                                               *)
LEMMA RemovedDue ==
  ASSUME CalendarInv, CalendarInv', ~closing, NEW p \in DOMAIN reminders_list,
         tick = 0 \/ tick = p,
         reminders_list' = RemoveAt(reminders_list, p),
         reminder' = Drop(reminder, reminders_list[p]),
         UNCHANGED <<tick, closing>>
  PROVE  \A k \in 0 .. Horizon :
           /\ Due'[k] = RemoveFirst(Due[k], reminders_list[p])
           /\ Left(p) # k => reminders_list[p] \notin Range(Due[k])
           /\ \E S : Due[k] \in Seq(S)
<1> DEFINE s == reminders_list
           n == Len(s)
           f == TicksLeft
           g == TicksLeft'
<1> HIDE DEF s, n, f, g
<1>1. /\ s \in Seq(ReminderBlock) /\ IsInjective(s) /\ n \in Nat /\ n = Len(s)
      /\ DOMAIN s = 1 .. n /\ p \in 1 .. n
  BY LenProperties DEF CalendarInv, HeapInv, TypeOK, ListsAgree, s, n
<1>2. /\ Len(s') = n - 1 /\ DOMAIN s' = 1 .. n - 1
      /\ \A j \in 1 .. n - 1 : s'[j] = IF j < p THEN s[j] ELSE s[j + 1]
  <2> DEFINE z == RemoveAt(s, p)
  <2> HIDE DEF z
  <2>1. /\ z \in Seq(ReminderBlock) /\ Len(z) = n - 1
        /\ \A j \in 1 .. n - 1 : z[j] = IF j < p THEN s[j] ELSE s[j + 1]
    BY <1>1, RemoveAtElements DEF z
  <2>2. DOMAIN z = 1 .. n - 1
    BY <2>1, LenProperties
  <2>3. s' = z
    BY DEF s, z
  <2>4. QED
    BY <2>1, <2>2, <2>3
<1>3. \A j \in 1 .. n : j # p => reminder'[s[j]] = reminder[s[j]]
  <2>1. \A j \in 1 .. n : s[j] \in DOMAIN reminder /\ (s[j] = s[p] => j = p)
    BY <1>1, EntryIsReminder DEF CalendarInv, s
  <2>2. \A q \in DOMAIN reminder : q # s[p] => reminder'[q] = reminder[q]
    BY DEF Drop, s
  <2>3. QED
    BY <2>1, <2>2
<1>4. \A j \in 1 .. n : f[j] = Left(j)
  BY <1>1 DEF TicksLeft, f, s
<1>5. \A j \in 1 .. n - 1 : g[j] = Left(j)'
  BY <1>2 DEF TicksLeft, g, s
<1>6. ASSUME NEW j \in 1 .. n - 1
      PROVE  g[j] = IF j < p THEN f[j] ELSE f[j + 1]
  <2>1. CASE j < p
    <3>1. j \in 1 .. n /\ s'[j] = s[j] /\ reminder'[s[j]] = reminder[s[j]]
      BY <1>1, <1>2, <1>3, <2>1
    <3>2. Left(j)' = Left(j)
      BY <3>1 DEF Left, s
    <3>3. QED
      BY <1>4, <1>5, <2>1, <3>1, <3>2
  <2>2. CASE ~(j < p)
    <3>1. j + 1 \in 1 .. n /\ s'[j] = s[j + 1] /\ j + 1 # p
      BY <1>1, <1>2, <2>2
    <3>2. reminder'[s[j + 1]] = reminder[s[j + 1]]
      BY <1>3, <3>1
    <3>3. (tick # 0 /\ j >= tick) <=> (tick # 0 /\ j + 1 >= tick)
      BY <1>1, <2>2
    <3>4. Left(j)' = Left(j + 1)
      BY <3>1, <3>2, <3>3 DEF Left, s
    <3>5. QED
      BY <1>4, <1>5, <2>2, <3>1, <3>4
  <2>3. QED
    BY <2>1, <2>2
<1>7. TimeRemoved(n, f, p, g)
  <2>1. f \in SortedTimes(n)
    BY DEF CalendarInv, f, n, s
  <2>2. TicksLeft' \in SortedTimes(Len(s'))
    BY DEF CalendarInv, s
  <2>3. g \in SortedTimes(n - 1)
    BY <1>2, <2>2 DEF g
  <2>4. QED
    BY <1>6, <2>1, <2>3 DEF TimeRemoved
<1>8. ASSUME NEW k \in 0 .. Horizon
      PROVE  /\ Due'[k] = RemoveFirst(Due[k], s[p])
             /\ Left(p) # k => s[p] \notin Range(Due[k])
             /\ Due[k] \in Seq(ReminderBlock)
  <2>1. Due[k] = Waiting(s, f, k)
    BY DEF Due, s, f
  <2>2. Due'[k] = Waiting(s', g, k)
    BY DEF Due, s, g
  <2>3. s' = RemoveAt(s, p) /\ k \in Int /\ p \in 1 .. Len(s)
    BY <1>1 DEF s
  <2>4. TimeRemoved(Len(s), f, p, g)
    BY <1>1, <1>7
  <2>5. /\ Waiting(RemoveAt(s, p), g, k) = RemoveFirst(Waiting(s, f, k), s[p])
        /\ f[p] # k => s[p] \notin Range(Waiting(s, f, k))
    BY <1>1, <2>3, <2>4, RemoveWaiting
  <2>6. Waiting(s, f, k) \in Seq(ReminderBlock)
    <3>1. f \in SortedTimes(Len(s))
      BY <2>4 DEF TimeRemoved
    <3> DEFINE h == k - 1
    <3>2. h \in Int /\ h = k - 1
      OBVIOUS
    <3> HIDE DEF h
    <3>3. IsSlice(ReminderBlock, Waiting(s, f, k), s, Within(f, h), Within(f, k))
      BY <1>1, <2>3, <3>1, <3>2, WaitingIs
    <3>4. QED
      BY <3>3 DEF IsSlice
  <2>7. f[p] = Left(p)
    BY <1>1, <1>4
  <2>8. QED
    BY <2>1, <2>2, <2>3, <2>5, <2>6, <2>7
<1>9. QED
  BY <1>8 DEF s

(* Its user loses it from the agenda.                                      *)
LEMMA RemovedAgenda ==
  ASSUME CalendarInv, NEW u \in DOMAIN user, NEW r, user' = Unlinked(u, r)
  PROVE  /\ user[u].user_name \in DOMAIN Agenda
         /\ Agenda[user[u].user_name] = user[u].notifications_list
         /\ Agenda' = [Agenda EXCEPT ![user[u].user_name] =
                         RemoveFirst(user[u].notifications_list, r)]
<1> DEFINE l == RemoveFirst(user[u].notifications_list, r)
<1>1. user' = [user EXCEPT ![u].notifications_list = l] /\ user[u] \in user_t
  BY DEF Unlinked, CalendarInv, HeapInv, TypeOK
<1> HIDE DEF l
<1>2. /\ DOMAIN user' = DOMAIN user /\ user'[u].user_name = user[u].user_name
      /\ user'[u].notifications_list = l
      /\ \A x \in DOMAIN user \ {u} : user'[x] = user[x]
  BY <1>1 DEF user_t
<1>3. DistinctNames(user)
  BY DEF CalendarInv
<1>4. AgendaOf(user') = [AgendaOf(user) EXCEPT ![user[u].user_name] = l]
  BY <1>2, <1>3, AgendaChange
<1>5. /\ user[u].user_name \in DOMAIN AgendaOf(user)
      /\ AgendaOf(user)[user[u].user_name] = user[u].notifications_list
  BY <1>3, AgendaIs
<1>6. QED
  BY <1>4, <1>5 DEF Agenda, l

(* A reminder that is removed is cancelled.                                *)
LEMMA RemoveUserNotificationRefines ==
  ASSUME CalendarInv, CalendarInv', NEW name \in UserName, NEW number,
         RemoveUserNotification(name, number)
  PROVE  [Refined!Next]_Refined!vars
<1>1. CASE UNCHANGED <<reminders_list, user, reminder>>
  <2>1. Due' = Due
    BY <1>1, SameDue DEF RemoveUserNotification
  <2>2. QED
    BY <1>1, <2>1, SameAgenda, SameCalendar
<1>2. ASSUME NEW i \in DOMAIN users_list, NEW p \in DOMAIN reminders_list,
             FindUserEntry(i, name),
             number \in DOMAIN user[users_list[i]].notifications_list,
             reminders_list[p] = user[users_list[i]].notifications_list[number],
             user' = Unlinked(users_list[i], reminders_list[p]),
             reminders_list' = RemoveAt(reminders_list, p),
             reminder' = Drop(reminder, reminders_list[p])
      PROVE  [Refined!Next]_Refined!vars
  <2> DEFINE u == users_list[i]
             r == reminders_list[p]
  <2>1. u \in DOMAIN user /\ user[u].user_name = name
    BY <1>2, EntryIsUser DEF CalendarInv, FindUserEntry
  <2>2. r \in Range(user[u].notifications_list) /\ r \in ReminderBlock
    <3>1. r \in DOMAIN reminder
      BY EntryIsReminder DEF CalendarInv
    <3>2. QED
      BY <1>2, <3>1 DEF Range, CalendarInv, HeapInv, TypeOK
  <2>3. UNCHANGED <<tick, closing>> /\ tick = 0 /\ ~closing
    BY DEF RemoveUserNotification, Idle
  <2>4. /\ name \in DOMAIN Agenda /\ Agenda[name] = user[u].notifications_list
        /\ Agenda' = [Agenda EXCEPT ![name] = RemoveFirst(Agenda[name], r)]
    <3> HIDE DEF u, r
    <3>1. user' = Unlinked(u, r)
      BY <1>2 DEF u, r
    <3>2. QED
      BY <2>1, <3>1, RemovedAgenda
  <2>5. \A k \in 0 .. Horizon : Due'[k] = RemoveFirst(Due[k], r)
    BY <1>2, <2>3, RemovedDue
  <2>6. Due' = [k \in 0 .. Horizon |-> RemoveFirst(Due[k], r)]
    <3>1. Due' = [k \in 0 .. Horizon |-> Due'[k]]
      BY DEF Due
    <3>2. QED
      BY <2>5, <3>1
  <2> HIDE DEF u, r
  <2>7. Refined!Cancel(name, r)
    <3>1. r \in Refined!Range(Agenda[name])
      BY <2>2, <2>4 DEF Refined!Range, Range
    <3>2. Agenda' = [Agenda EXCEPT ![name] = Refined!RemoveFirst(Agenda[name], r)]
      BY <2>4, SameRemoveFirst
    <3>3. Due' = [k \in 0 .. Horizon |-> Refined!RemoveFirst(Due[k], r)]
      BY <2>6, SameRemoveFirst
    <3>4. QED
      BY <2>4, <3>1, <3>2, <3>3 DEF Refined!Cancel
  <2>8. QED
    BY <2>2, <2>7 DEF Refined!Next
<1>3. QED
  BY <1>1, <1>2 DEF RemoveUserNotification

(* Nobody waits k ticks if no time left is k.                              *)
LEMMA NoneWaiting ==
  ASSUME NEW S, NEW s \in Seq(S), NEW f \in SortedTimes(Len(s)), NEW k \in Int,
         \A i \in 1 .. Len(s) : f[i] # k
  PROVE  Waiting(s, f, k) = << >>
<1> DEFINE h == k - 1
           a == Within(f, h)
           b == Within(f, k)
           w == Waiting(s, f, k)
<1>1. h \in Int /\ h = k - 1
  OBVIOUS
<1> HIDE DEF h, a, b, w
<1>2. IsSlice(S, w, s, a, b) /\ \A i \in 1 .. Len(s) : f[i] = k <=> a < i /\ i <= b
  BY <1>1, WaitingIs DEF a, b, w
<1>3. a \in 0 .. Len(s) /\ b \in a .. Len(s) /\ w \in Seq(S) /\ Len(w) = b - a
  BY <1>2 DEF IsSlice
<1>4. Len(s) \in Nat
  BY LenProperties
<1>5. ~(a < b)
  <2>1. SUFFICES ASSUME a < b PROVE FALSE
    OBVIOUS
  <2>2. b \in 1 .. Len(s) /\ a < b /\ b <= b
    BY <1>3, <1>4, <2>1
  <2>3. QED
    BY <1>2, <2>2
<1>6. Len(w) = 0
  BY <1>3, <1>4, <1>5
<1>7. QED
  BY <1>3, <1>6, EmptySeq DEF w

(* And nobody waits in an empty list.                                      *)
LEMMA NobodyWaiting ==
  ASSUME NEW f \in SortedTimes(0), NEW k \in Int
  PROVE  Waiting(<< >>, f, k) = << >>
<1> DEFINE s == << >>
<1>1. Len(s) = 0 /\ s \in Seq({}) /\ f \in SortedTimes(Len(s))
  OBVIOUS
<1> HIDE DEF s
<1>2. \A i \in 1 .. Len(s) : f[i] # k
  BY <1>1
<1>3. Waiting(s, f, k) = << >>
  BY <1>1, <1>2, NoneWaiting
<1>4. QED
  BY <1>3 DEF s

(* What the invariant says of the times left.                              *)
LEMMA TimesAre ==
  ASSUME CalendarInv
  PROVE  /\ Len(reminders_list) \in Nat /\ reminders_list \in Seq(ReminderBlock)
         /\ DOMAIN reminders_list = 1 .. Len(reminders_list)
         /\ TicksLeft \in SortedTimes(Len(reminders_list))
         /\ \A i \in 1 .. Len(reminders_list) :
              /\ TicksLeft[i] = Left(i) /\ Left(i) \in Int
              /\ reminders_list[i] \in DOMAIN reminder
              /\ reminder[reminders_list[i]].ellapse_time \in 1 .. Horizon
<1>1. /\ Len(reminders_list) \in Nat /\ reminders_list \in Seq(ReminderBlock)
      /\ DOMAIN reminders_list = 1 .. Len(reminders_list)
  BY LenProperties DEF CalendarInv, HeapInv, TypeOK
<1>2. \A i \in 1 .. Len(reminders_list) : Left(i) \in Int /\ reminders_list[i] \in DOMAIN reminder
  BY <1>1, EntryIsReminder DEF CalendarInv
<1>3. \A i \in 1 .. Len(reminders_list) : TicksLeft[i] = Left(i)
  BY <1>1 DEF TicksLeft
<1>4. QED
  BY <1>1, <1>2, <1>3 DEF CalendarInv

(* When handle_timer_tick enters its loop a tick passes.                   *)
LEMMA TickStartRefines ==
  ASSUME CalendarInv, CalendarInv', TickStart
  PROVE  [Refined!Next]_Refined!vars
<1> DEFINE s == reminders_list
           n == Len(s)
           f == TicksLeft
           g == TicksLeft'
<1>1. /\ tick = 0 /\ tick' = 1 /\ ~closing /\ ~closing'
      /\ UNCHANGED <<reminders_list, user, reminder>>
  BY DEF TickStart, Idle
<1> HIDE DEF s, n, f, g
<1>2. /\ n \in Nat /\ n = Len(s) /\ s \in Seq(ReminderBlock) /\ f \in SortedTimes(n)
      /\ \A i \in 1 .. n : f[i] \in 1 .. Horizon
  BY <1>1, TimesAre DEF Left, s, n, f
<1>3. s' = s
  BY <1>1 DEF s
<1>4. g \in SortedTimes(n)
  <2>1. TicksLeft' \in SortedTimes(Len(s'))
    BY DEF CalendarInv, s
  <2>2. QED
    BY <1>2, <1>3, <2>1 DEF g
<1>5. \A i \in 1 .. n : g[i] = f[i] - 1
  <2>1. \A i \in 1 .. n : g[i] = Left(i)'
    BY <1>1, <1>2, LenProperties DEF g, TicksLeft, s
  <2>2. \A i \in 1 .. n : i >= 1 /\ f[i] = Left(i)
    BY TimesAre DEF f, s, n
  <2>3. \A i \in 1 .. n : Left(i)' = Left(i) - 1
    BY <1>1, <2>2 DEF Left
  <2>4. QED
    BY <2>1, <2>2, <2>3
<1>6. Due = [k \in 0 .. Horizon |-> Waiting(s, f, k)]
  BY <1>1 DEF Due, s, f
<1>7. Due' = [k \in 0 .. Horizon |-> Waiting(s, g, k)]
  BY <1>1 DEF Due, s, g
<1>8. f \in SortedTimes(Len(s)) /\ Horizon + 1 \in Int /\ 0 \in Int
  BY <1>2, HorizonAssumption
<1>9. Due[0] = << >>
  <2>1. \A i \in 1 .. Len(s) : f[i] # 0
    BY <1>2
  <2>2. Waiting(s, f, 0) = << >>
    BY <1>2, <1>8, <2>1, NoneWaiting
  <2>3. QED
    BY <1>6, <2>2, HorizonAssumption
<1>10. Waiting(s, f, Horizon + 1) = << >>
  <2>1. \A i \in 1 .. Len(s) : f[i] # Horizon + 1
    BY <1>2, HorizonAssumption
  <2>2. QED
    BY <1>2, <1>8, <2>1, NoneWaiting
<1>11. ASSUME NEW k \in 0 .. Horizon
       PROVE  Waiting(s, g, k) = IF k < Horizon THEN Due[k + 1] ELSE << >>
  <2>1. Waiting(s, g, k) = Waiting(s, f, k + 1)
    BY <1>2, <1>4, <1>5, ShiftWaiting
  <2>2. CASE k < Horizon
    <3>1. k + 1 \in 0 .. Horizon
      BY <2>2, HorizonAssumption
    <3>2. QED
      BY <1>6, <2>1, <2>2, <3>1
  <2>3. CASE ~(k < Horizon)
    <3>1. k + 1 = Horizon + 1
      BY <2>3, HorizonAssumption
    <3>2. QED
      BY <1>10, <2>1, <2>3, <3>1
  <2>4. QED
    BY <2>2, <2>3
<1>12. Due' = [k \in 0 .. Horizon |-> IF k < Horizon THEN Due[k + 1] ELSE << >>]
  BY <1>7, <1>11
<1>13. Agenda' = Agenda
  BY <1>1, SameAgenda
<1>14. Refined!Pass
  BY <1>9, <1>12, <1>13 DEF Refined!Pass
<1>15. QED
  BY <1>14 DEF Refined!Next

(* The steps of the loop that announce nothing change nothing in the       *)
(* calendar.                                                               *)
LEMMA CountDownRefines ==
  ASSUME CalendarInv, CountDown \/ TickEnd
  PROVE  [Refined!Next]_Refined!vars
<1>1. UNCHANGED <<reminders_list, user, closing>>
  BY DEF CountDown, TickEnd
<1>2. \A i \in DOMAIN reminders_list : Left(i)' = Left(i)
  BY CountDownLeft, TickEndLeft DEF CalendarInv
<1>3. TicksLeft' = TicksLeft
  BY <1>1, <1>2 DEF TicksLeft
<1>4. Due' = Due
  BY <1>1, <1>3 DEF Due
<1>5. QED
  BY <1>1, <1>4, SameAgenda, SameCalendar

(* The reminder that the loop finds due is the first of the list and the   *)
(* oldest of those that are due.                                           *)
LEMMA ExpiresFirst ==
  ASSUME CalendarInv, Expire
  PROVE  /\ tick = 1 /\ ~closing /\ 1 \in DOMAIN reminders_list /\ Left(1) = 0
         /\ Due[0] # << >> /\ Head(Due[0]) = reminders_list[1]
<1> DEFINE s == reminders_list
           n == Len(s)
           f == TicksLeft
           w == Waiting(s, f, 0)
           a == Within(f, -1)
           b == Within(f, 0)
<1> HIDE DEF s, n, f, w, a, b
<1>1. /\ n \in Nat /\ n = Len(s) /\ s \in Seq(ReminderBlock) /\ f \in SortedTimes(n)
      /\ DOMAIN s = 1 .. n
      /\ \A i \in 1 .. n : f[i] = Left(i) /\ f[i] \in Int
      /\ \A i \in 1 .. n : reminder[s[i]].ellapse_time \in 1 .. Horizon
  BY TimesAre DEF s, n, f
<1>2. tick \in 1 .. n /\ reminder[s[tick]].ellapse_time - 1 = 0
  BY <1>1 DEF Expire, BecomesDue, s
<1>3. ~closing
  BY <1>2 DEF CalendarInv, HeapInv, ClosingShape
<1>4. f[tick] = 0
  BY <1>1, <1>2 DEF Left, s
<1>5. \A i \in 1 .. n : i < tick => f[i] >= 1
  <2>1. \A i \in 1 .. n : i < tick => f[i] = reminder[s[i]].ellapse_time
    BY <1>1, <1>2 DEF Left, s
  <2>2. QED
    BY <1>1, <2>1
<1>6. tick = 1
  <2>1. SUFFICES ASSUME tick # 1 PROVE FALSE
    OBVIOUS
  <2>2. 1 \in 1 .. n /\ 1 < tick
    BY <1>1, <1>2, <2>1
  <2>3. f[1] <= f[tick]
    BY <1>1, <1>2, <2>2 DEF SortedTimes
  <2>4. f[1] >= 1
    BY <1>5, <2>2
  <2>5. QED
    BY <1>1, <1>4, <2>2, <2>3, <2>4
<1>7. 1 \in 1 .. n /\ f[1] = 0
  BY <1>2, <1>4, <1>6
<1>8. a = 0 /\ b \in 1 .. n
  <2>1. a \in 0 .. n /\ (f[1] <= -1 <=> 1 <= a)
    BY <1>1, <1>7, WithinIs DEF a
  <2>2. b \in 0 .. n /\ (f[1] <= 0 <=> 1 <= b)
    BY <1>1, <1>7, WithinIs DEF b
  <2>3. QED
    BY <1>1, <1>7, <2>1, <2>2
<1>9. w \in Seq(ReminderBlock) /\ Len(w) = b - a /\ w[1] = s[1]
  <2>1. IsSlice(ReminderBlock, w, s, a, b)
    <3>1. -1 = 0 - 1 /\ -1 \in Int /\ 0 \in Int /\ f \in SortedTimes(Len(s))
      BY <1>1
    <3>2. QED
      BY <1>1, <3>1, WaitingIs DEF w, a, b
  <2>2. \A i \in 1 .. b - a : w[i] = s[a + i]
    BY <2>1 DEF IsSlice
  <2>3. 1 \in 1 .. b - a /\ a + 1 = 1
    BY <1>1, <1>8
  <2>4. QED
    BY <2>1, <2>2, <2>3 DEF IsSlice
<1>10. w # << >> /\ Head(w) = s[1]
  <2>1. Len(w) # 0
    BY <1>1, <1>8, <1>9
  <2>2. w # << >>
    BY <2>1, EmptySeq
  <2>3. QED
    BY <1>9, <2>2, HeadTailProperties
<1>11. Due[0] = w
  BY <1>3, HorizonAssumption DEF Due, w, s, f
<1>12. Left(1) = 0 /\ 1 \in DOMAIN s
  BY <1>1, <1>7
<1>13. QED
  BY <1>3, <1>6, <1>10, <1>11, <1>12 DEF s

(* A reminder that expires is announced.                                   *)
LEMMA ExpireRefines ==
  ASSUME CalendarInv, CalendarInv', Expire
  PROVE  [Refined!Next]_Refined!vars
<1> DEFINE r == reminders_list[1]
           u == reminder[r].belongs_to
           l == user[u].notifications_list
<1>1. /\ tick = 1 /\ ~closing /\ 1 \in DOMAIN reminders_list /\ Left(1) = 0
      /\ Due[0] # << >> /\ Head(Due[0]) = r
  BY ExpiresFirst
<1>2. /\ reminders_list' = RemoveAt(reminders_list, 1)
      /\ user' = Unlinked(u, r)
      /\ reminder' = Drop(reminder, r)
      /\ UNCHANGED <<tick, closing>>
  BY <1>1 DEF Expire
<1>3. r \in DOMAIN reminder /\ u \in DOMAIN user
  <2>1. r \in DOMAIN reminder
    BY <1>1, EntryIsReminder DEF CalendarInv
  <2>2. QED
    BY <1>1, <2>1 DEF CalendarInv, HeapInv, NoDanglingPointers
<1>4. \A k \in 0 .. Horizon :
        /\ Due'[k] = RemoveFirst(Due[k], r)
        /\ 0 # k => r \notin Range(Due[k])
        /\ \E S : Due[k] \in Seq(S)
  BY <1>1, <1>2, RemovedDue
<1> HIDE DEF r
<1>5. \A k \in 0 .. Horizon : k # 0 => Due'[k] = Due[k]
  BY <1>4, RemoveFirstAbsent
<1>6. Due'[0] = Tail(Due[0])
  <2>1. 0 \in 0 .. Horizon
    BY HorizonAssumption
  <2>2. PICK S : Due[0] \in Seq(S)
    BY <1>4, <2>1
  <2>3. RemoveFirst(Due[0], Head(Due[0])) = Tail(Due[0])
    BY <1>1, <2>2, RemoveFirstIsTail
  <2>4. QED
    BY <1>1, <1>4, <2>1, <2>3
<1>7. Due' = [Due EXCEPT ![0] = Tail(Due[0])]
  <2>1. Due' = [k \in 0 .. Horizon |-> Due'[k]] /\ Due = [k \in 0 .. Horizon |-> Due[k]]
    BY DEF Due
  <2>2. QED
    BY <1>5, <1>6, <2>1
<1>8. /\ user[u].user_name \in DOMAIN Agenda /\ Agenda[user[u].user_name] = l
      /\ Agenda' = [Agenda EXCEPT ![user[u].user_name] = RemoveFirst(l, r)]
  <2> HIDE DEF u
  <2>1. QED
    BY <1>2, <1>3, RemovedAgenda
<1> HIDE DEF u, l
<1>9. ASSUME NEW m \in DOMAIN Agenda, m # user[u].user_name
      PROVE  RemoveFirst(Agenda[m], r) = Agenda[m]
  <2>1. DOMAIN Agenda = NamesIn(user) /\ DistinctNames(user)
    BY DEF Agenda, AgendaOf, CalendarInv
  <2>2. PICK v \in DOMAIN user : user[v].user_name = m
    BY <2>1 DEF NamesIn
  <2>3. Agenda[m] = user[v].notifications_list
    BY <2>1, <2>2, AgendaIs DEF Agenda
  <2>4. v # u
    BY <1>9, <2>2
  <2>5. r \notin Range(user[v].notifications_list)
    BY <1>3, <2>4 DEF CalendarInv, HeapInv, ListsAgree, u
  <2>6. user[v].notifications_list \in Seq(ReminderBlock)
    BY DEF CalendarInv, HeapInv, TypeOK, user_t
  <2>7. QED
    BY <2>3, <2>5, <2>6, RemoveFirstAbsent
<1>10. Agenda' = [m \in DOMAIN Agenda |-> RemoveFirst(Agenda[m], r)]
  <2>1. Agenda = [m \in DOMAIN Agenda |-> Agenda[m]]
    BY DEF Agenda, AgendaOf
  <2>2. QED
    BY <1>8, <1>9, <2>1
<1>11. Refined!Announce
  <2>1. Agenda' = [m \in DOMAIN Agenda |-> Refined!RemoveFirst(Agenda[m], Head(Due[0]))]
    BY <1>1, <1>10, SameRemoveFirst
  <2>2. QED
    BY <1>1, <1>7, <2>1 DEF Refined!Announce
<1>12. QED
  BY <1>11 DEF Refined!Next

(* Both clean-up calls close the calendar, the second one when it is       *)
(* closed already.                                                         *)
LEMMA CleanupRefines ==
  ASSUME CalendarInv, CalendarInv', CleanupUsers \/ CleanupReminders
  PROVE  [Refined!Next]_Refined!vars
<1>1. DOMAIN user' = {}
  BY DEF CleanupUsers, CleanupReminders, NoBlocks, CalendarInv, HeapInv, ClosingShape
<1>2. Agenda' = Refined!Nothing
  BY <1>1 DEF Agenda, AgendaOf, NamesIn, Refined!Nothing
<1>3. CASE CleanupUsers
  <2>1. closing'
    BY <1>3 DEF CleanupUsers
  <2>2. Due' = Refined!Clear
    BY <2>1 DEF Due, Refined!Clear
  <2>3. QED
    BY <1>2, <2>2 DEF Refined!Close, Refined!Next
<1>4. CASE CleanupReminders
  <2>1. ~closing' /\ reminders_list' = << >>
    BY <1>4 DEF CleanupReminders
  <2> DEFINE g == TicksLeft'
  <2>2. g \in SortedTimes(Len(reminders_list'))
    BY DEF CalendarInv
  <2> HIDE DEF g
  <2>3. g \in SortedTimes(0)
    BY <2>1, <2>2
  <2>4. \A k \in 0 .. Horizon : Waiting(<< >>, g, k) = << >>
    BY <2>3, NobodyWaiting
  <2>5. Due' = [k \in 0 .. Horizon |-> Waiting(<< >>, g, k)]
    BY <2>1 DEF Due, g
  <2>6. Due' = Refined!Clear
    BY <2>4, <2>5 DEF Refined!Clear
  <2>7. QED
    BY <1>2, <2>6 DEF Refined!Close, Refined!Next
<1>5. QED
  BY <1>3, <1>4

(* The calendar starts clear.                                              *)
LEMMA InitRefines == Init => Refined!Init
<1> SUFFICES ASSUME Init PROVE Refined!Init
  OBVIOUS
<1>1. /\ reminders_list = << >> /\ DOMAIN user = {} /\ ~closing
  BY DEF Init, NoBlocks
<1>2. Agenda = Refined!Nothing
  BY <1>1 DEF Agenda, AgendaOf, NamesIn, Refined!Nothing
<1>3. DOMAIN << >> = 1 .. 0
  OBVIOUS
<1>4. TicksLeft \in SortedTimes(0)
  BY <1>1, <1>3 DEF TicksLeft, SortedTimes
<1>5. \A k \in 0 .. Horizon : Waiting(<< >>, TicksLeft, k) = << >>
  BY <1>4, NobodyWaiting
<1>6. Due = [k \in 0 .. Horizon |-> Waiting(<< >>, TicksLeft, k)]
  BY <1>1 DEF Due
<1>7. Due = Refined!Clear
  BY <1>5, <1>6 DEF Refined!Clear
<1>8. QED
  BY <1>2, <1>7 DEF Refined!Init

-----------------------------------------------------------------------------

(* That reminders_list is sorted is what the lemmas about Waiting ask for. *)
LEMMA SortedTicks ==
  HeapInv /\ SortedByTime => TicksLeft \in SortedTimes(Len(reminders_list))
<1> SUFFICES ASSUME HeapInv, SortedByTime
             PROVE  TicksLeft \in SortedTimes(Len(reminders_list))
  OBVIOUS
<1>1. DOMAIN reminders_list = 1 .. Len(reminders_list)
  BY LenProperties DEF HeapInv, TypeOK
<1>2. \A i \in 1 .. Len(reminders_list) : TicksLeft[i] = Left(i) /\ Left(i) \in Int
  BY <1>1, EntryIsReminder DEF TicksLeft
<1>3. TicksLeft = [i \in 1 .. Len(reminders_list) |-> TicksLeft[i]]
  BY <1>1 DEF TicksLeft
<1>4. TicksLeft \in [1 .. Len(reminders_list) -> Int]
  BY <1>2, <1>3
<1>5. \A i, j \in 1 .. Len(reminders_list) : i < j => TicksLeft[i] <= TicksLeft[j]
  BY <1>1, <1>2 DEF SortedByTime
<1>6. QED
  BY <1>4, <1>5 DEF SortedTimes

(* No reminder waits longer than the longest time clients ask for.         *)
WithinHorizon == \A r \in DOMAIN reminder : reminder[r].ellapse_time <= Horizon

LEMMA HorizonKept ==
  ASSUME Times \subseteq 1 .. Horizon, HeapInv, WithinHorizon, [Next]_vars
  PROVE  WithinHorizon'
<1>1. /\ \A r \in DOMAIN reminder : reminder[r].ellapse_time \in Int
      /\ \A r \in DOMAIN reminder : reminder[r].ellapse_time <= Horizon
  BY DEF HeapInv, TypeOK, reminder_t, WithinHorizon
<1>2. ASSUME NEW name \in UserName, NEW t \in Times, AddUserReminder(name, t)
      PROVE  WithinHorizon'
  <2>1. CASE reminder' = reminder
    BY <1>1, <2>1 DEF WithinHorizon
  <2>2. CASE ~(reminder' = reminder)
    <3>1. PICK u \in UserBlock, r \in ReminderBlock \ DOMAIN reminder :
            reminder' = Put(reminder, r, [belongs_to |-> u, ellapse_time |-> t])
      BY <1>2, <2>2, EntryIsUser DEF AddUserReminder
    <3>2. /\ DOMAIN reminder' = DOMAIN reminder \cup {r} /\ reminder'[r].ellapse_time = t
          /\ \A q \in DOMAIN reminder : reminder'[q] = reminder[q]
      BY <3>1 DEF Put
    <3>3. t <= Horizon
      BY HorizonAssumption
    <3>4. QED
      BY <1>1, <3>2, <3>3 DEF WithinHorizon
  <2>3. QED
    BY <2>1, <2>2
<1>3. ASSUME NEW name \in UserName, NEW number, RemoveUserNotification(name, number)
      PROVE  WithinHorizon'
  BY <1>1, <1>3 DEF RemoveUserNotification, Drop, WithinHorizon
<1>4. CASE CountDown
  <2> DEFINE r == reminders_list[tick]
  <2>1. r \in DOMAIN reminder
    BY <1>4, EntryIsReminder DEF CountDown
  <2>2. reminder' = [reminder EXCEPT ![r].ellapse_time = @ - 1]
    BY <1>4 DEF CountDown
  <2>3. \A q \in DOMAIN reminder : reminder[q] \in reminder_t
    BY DEF HeapInv, TypeOK
  <2> HIDE DEF r
  <2>4. /\ DOMAIN reminder' = DOMAIN reminder
        /\ reminder'[r].ellapse_time = reminder[r].ellapse_time - 1
        /\ \A q \in DOMAIN reminder : q # r => reminder'[q] = reminder[q]
    BY <2>1, <2>2, <2>3 DEF reminder_t
  <2>5. reminder'[r].ellapse_time <= Horizon
    BY <1>1, <2>1, <2>4, HorizonAssumption
  <2>6. QED
    BY <1>1, <2>4, <2>5 DEF WithinHorizon
<1>5. CASE Expire
  BY <1>1, <1>5 DEF Expire, Drop, WithinHorizon
<1>6. CASE CleanupReminders
  BY <1>6 DEF CleanupReminders, NoBlocks, WithinHorizon
<1>7. CASE reminder' = reminder
  BY <1>1, <1>7 DEF WithinHorizon
<1>8. QED
  BY <1>2, <1>3, <1>4, <1>5, <1>6, <1>7
  DEF Next, AddNewUser, ClientRemovesUser, RemoveUser, TickStart, TickEnd, CleanupUsers, vars

(* When clients ask for times up to the horizon, all of it always holds.   *)
LEMMA CalendarInvariant ==
  ASSUME Times \subseteq 1 .. Horizon
  PROVE  Spec => []CalendarInv
<1>1. Init => WithinHorizon
  BY DEF Init, NoBlocks, WithinHorizon
<1>2. HeapInv /\ WithinHorizon /\ [Next]_vars => WithinHorizon'
  BY HorizonKept
<1>3. HeapInv /\ UniqueNames /\ SortedByTime /\ NoneOverdue /\ WithinHorizon => CalendarInv
  <2> SUFFICES ASSUME HeapInv, UniqueNames, SortedByTime, NoneOverdue, WithinHorizon
               PROVE  CalendarInv
    OBVIOUS
  <2>1. \A t \in Times : t > 0
    BY HorizonAssumption
  <2>2. \A r \in DOMAIN reminder : reminder[r].ellapse_time \in Int
    BY DEF HeapInv, TypeOK, reminder_t
  <2>3. \A r \in DOMAIN reminder : reminder[r].ellapse_time \in 1 .. Horizon
    BY <2>1, <2>2, HorizonAssumption DEF NoneOverdue, WithinHorizon
  <2>4. DistinctNames(user)
    BY DEF UniqueNames, DistinctNames
  <2>5. QED
    BY <2>3, <2>4, SortedTicks DEF CalendarInv
<1>4. QED
  BY <1>1, <1>2, <1>3, HeapInvariant, NamesAreUnique, AlwaysSorted, NeverOverdue, PTL DEF Spec

(* The library implements the calendar, for any users, blocks and times,   *)
(* as long as clients ask for positive times: what is set for a tick is    *)
(* announced in it and in no other, oldest first, whatever is added and    *)
(* removed in between.                                                     *)
THEOREM LibraryIsCalendar ==
  ASSUME Times \subseteq 1 .. Horizon
  PROVE  Spec => ImplementsCalendar
<1>1. CalendarInv /\ CalendarInv' /\ [Next]_vars => [Refined!Next]_Refined!vars
  <2> SUFFICES ASSUME CalendarInv, CalendarInv', [Next]_vars
               PROVE  [Refined!Next]_Refined!vars
    OBVIOUS
  <2>1. CASE UNCHANGED vars
    BY <2>1, SameAgenda, SameDue, SameCalendar DEF vars
  <2>2. CASE Next
    BY <2>2, AddNewUserRefines, AddUserReminderRefines, RemoveUserRefines,
       RemoveUserNotificationRefines, TickStartRefines, CountDownRefines, ExpireRefines,
       CleanupRefines DEF Next
  <2>3. QED
    BY <2>1, <2>2
<1>2. QED
  BY <1>1, InitRefines, CalendarInvariant, PTL DEF Spec, ImplementsCalendar, Refined!Spec

(***************************************************************************)
(* The notification screen, for any script of users and reminders: it is a *)
(* client of the reminders model, so all that is proved of the model holds *)
(* under it, and its buttons are the queue.                                *)
(***************************************************************************)

(* How the stage of the screen goes with the rest of its state.            *)
Stages ==
  /\ stage \in {"build", "connect", "run", "close", "gone"}
  /\ done \in Nat /\ index \in Nat
  /\ stage \in {"build", "connect"} => tick = 0
  /\ closing <=> stage = "close"
  /\ stage = "build" => ~label
  /\ stage = "run" => connector = "remove"

(* The inductive invariant.                                                *)
ViewInv == HeapInv /\ Stages /\ ButtonsMatchQueue

LEMMA ViewInitInv == ViewInit => ViewInv
<1> SUFFICES ASSUME ViewInit PROVE ViewInv
  OBVIOUS
<1>1. HeapInv
  BY HeapInit DEF ViewInit
<1>2. Stages /\ ButtonsMatchQueue
  BY DEF ViewInit, Init, Stages, ButtonsMatchQueue, Live
<1>3. QED
  BY <1>1, <1>2 DEF ViewInv

(* Every step of the screen is a step of the model or leaves it alone.     *)
LEMMA StepOfModel == Stages /\ [ViewNext]_viewVars => [Next]_vars
<1> SUFFICES ASSUME Stages, [ViewNext]_viewVars PROVE [Next]_vars
  OBVIOUS
<1>1. CASE Populate
  <2>1. Len(Users) \in Nat /\ Len(Script) \in Nat /\ done \in Nat
    BY ViewAssumption DEF Stages
  <2>2. CASE done < Len(Users)
    <3>1. Users[done + 1] \in UserName /\ AddNewUser(Users[done + 1])
      BY <1>1, <2>1, <2>2, ViewAssumption DEF Populate
    <3>2. QED
      BY <3>1 DEF Next
  <2>3. CASE ~(done < Len(Users))
    <3> DEFINE call == Script[done + 1 - Len(Users)]
    <3>1. done + 1 - Len(Users) \in 1 .. Len(Script)
      BY <1>1, <2>1, <2>3 DEF Populate
    <3>2. call \in [name : UserName, time : Times]
      <4> DEFINE Calls == [name : UserName, time : Times]
      <4>1. Script \in Seq(Calls)
        BY ViewAssumption
      <4> HIDE DEF Calls
      <4>2. Script[done + 1 - Len(Users)] \in Calls
        BY <3>1, <4>1, ElementOfSeq
      <4>3. QED
        BY <4>2 DEF Calls
    <3>3. AddUserReminder(call.name, call.time)
      BY <1>1, <2>3 DEF Populate
    <3>4. QED
      BY <3>2, <3>3 DEF Next
  <2>4. QED
    BY <2>2, <2>3
<1>2. CASE Tick
  BY <1>2 DEF Tick, Next
<1>3. CASE TickExpires
  BY <1>3 DEF TickExpires, Next
<1>4. CASE DestroyUsers \/ DestroyReminders
  BY <1>4 DEF DestroyUsers, DestroyReminders, Next
<1>5. CASE ShowList \/ Connect \/ AutoScroll \/ CloseBox \/ UNCHANGED viewVars
           \/ \E i \in DOMAIN buttons : Click(i)
  BY <1>5 DEF ShowList, Connect, AutoScroll, CloseBox, Click, viewVars
<1>6. QED
  BY <1>1, <1>2, <1>3, <1>4, <1>5 DEF ViewNext

LEMMA HeapUnderView == ViewInv /\ [ViewNext]_viewVars => HeapInv'
BY StepOfModel, HeapStep DEF ViewInv

(* A reminder expires: its button is the one at the same position.         *)
LEMMA TickExpiresInv ==
  ASSUME ViewInv, TickExpires
  PROVE  ButtonsMatchQueue'
<1> DEFINE r == reminders_list[tick]
<1>1. /\ buttons = reminders_list /\ connector = "remove"
      /\ reminders_list \in Seq(ReminderBlock) /\ IsInjective(reminders_list)
      /\ tick \in 1 .. Len(reminders_list)
      /\ reminders_list' = RemoveAt(reminders_list, tick)
  BY LenProperties DEF ViewInv, HeapInv, TypeOK, ListsAgree, Stages, ButtonsMatchQueue, Live,
     TickExpires, Expire
<1>2. RemoveFirst(buttons, r) = reminders_list'
  BY <1>1, RemoveFirstIsRemoveAt
<1>3. Contains(buttons, r)
  BY <1>1 DEF Contains
<1>4. AboutToBeRemoved(r)
  BY <1>1 DEF TickExpires
<1>5. buttons' = reminders_list' /\ (label' <=> reminders_list' = << >>)
  BY <1>2, <1>3, <1>4 DEF AboutToBeRemoved, WithoutButton, ListEmpty
<1>6. QED
  BY <1>5 DEF ButtonsMatchQueue

LEMMA ViewStep == ViewInv /\ [ViewNext]_viewVars => ViewInv'
<1> SUFFICES ASSUME ViewInv, [ViewNext]_viewVars PROVE ViewInv'
  OBVIOUS
<1> USE DEF ViewInv
<1>1. HeapInv'
  BY HeapUnderView
<1>2. Stages'
  <2> USE DEF Stages
  <2>1. CASE Populate
    BY <2>1 DEF Populate, AddNewUser, AddUserReminder, widgets, scroll
  <2>2. CASE ShowList \/ Connect \/ CloseBox \/ UNCHANGED viewVars
             \/ \E i \in DOMAIN buttons : Click(i)
    BY <2>2 DEF ShowList, Connect, CloseBox, Click, viewVars, vars, widgets, scroll
  <2>3. CASE Tick
    BY <2>3 DEF Tick, TickStart, CountDown, TickEnd, widgets, scroll
  <2>4. CASE TickExpires
    BY <2>4 DEF TickExpires, Expire, scroll
  <2>5. CASE AutoScroll
    <3>1. index' \in Nat
      BY <2>5 DEF AutoScroll
    <3>2. QED
      BY <2>5, <3>1 DEF AutoScroll, vars, widgets
  <2>6. CASE DestroyUsers \/ DestroyReminders
    BY <2>6 DEF DestroyUsers, DestroyReminders, CleanupUsers, CleanupReminders, widgets, scroll
  <2>7. QED
    BY <2>1, <2>2, <2>3, <2>4, <2>5, <2>6 DEF ViewNext
<1>3. ButtonsMatchQueue'
  <2> USE DEF ButtonsMatchQueue, Live
  <2>1. CASE Populate
    BY <2>1 DEF Populate
  <2>2. CASE ShowList
    BY <2>2 DEF ShowList, Stages, vars
  <2>3. CASE Connect \/ CloseBox \/ AutoScroll \/ UNCHANGED viewVars
             \/ \E i \in DOMAIN buttons : Click(i)
    BY <2>3 DEF Connect, CloseBox, AutoScroll, Click, viewVars, vars, widgets
  <2>4. CASE Tick
    BY <2>4 DEF Tick, TickStart, CountDown, TickEnd, widgets
  <2>5. CASE TickExpires
    BY <2>5, TickExpiresInv
  <2>6. CASE DestroyUsers \/ DestroyReminders
    BY <2>6 DEF DestroyUsers, DestroyReminders
  <2>7. QED
    BY <2>1, <2>2, <2>3, <2>4, <2>5, <2>6 DEF ViewNext
<1>4. QED
  BY <1>1, <1>2, <1>3

LEMMA ViewInvariant == ViewSpec => []ViewInv
BY ViewInitInv, ViewStep, PTL DEF ViewSpec

(* The screen is a client of the model like those Spec describes: whatever *)
(* the constructor, the timers and the destructor do to the reminders, in  *)
(* whatever order, is a behaviour of the reminders model.                  *)
THEOREM ViewIsClient == ViewSpec => Spec
<1>1. ViewInit => Init
  BY DEF ViewInit
<1>2. ViewInv /\ [ViewNext]_viewVars => [Next]_vars
  BY StepOfModel DEF ViewInv
<1>3. QED
  BY <1>1, <1>2, ViewInvariant, PTL DEF ViewSpec, Spec

(* And so the screen is a client of a calendar: what it shows and what     *)
(* fires under it is scheduled, passed and announced as the calendar does. *)
THEOREM ScreenIsCalendar ==
  ASSUME Times \subseteq 1 .. Horizon
  PROVE  ViewSpec => ImplementsCalendar
BY ViewIsClient, LibraryIsCalendar, PTL

(* The buttons are the pending reminders, in their order, also in the      *)
(* middle of a tick that removes several; and the label tells when none is *)
(* left.                                                                   *)
THEOREM ButtonsAlwaysMatchQueue == ViewSpec => []ButtonsMatchQueue
<1>1. ViewInv => ButtonsMatchQueue
  BY DEF ViewInv
<1>2. QED
  BY <1>1, ViewInvariant, PTL

(* What a click reads is allocated, and the scroll timer never asks for a  *)
(* button that is gone.                                                    *)
THEOREM ClicksAndScrollsAreSafe == ViewSpec => []ClicksAndScrollsFindTheirTarget
<1>1. ViewInv => ClicksAndScrollsFindTheirTarget
  <2> SUFFICES ASSUME ViewInv PROVE ClicksAndScrollsFindTheirTarget
    OBVIOUS
  <2>1. ASSUME Live, NEW i \in DOMAIN buttons
        PROVE  /\ buttons[i] \in DOMAIN reminder
               /\ reminder[buttons[i]].belongs_to \in DOMAIN user
    <3>1. buttons[i] \in Range(reminders_list) /\ ~closing
      BY <2>1 DEF ViewInv, ButtonsMatchQueue, Stages, Live, Range
    <3>2. QED
      BY <3>1 DEF ViewInv, HeapInv, NoDanglingPointers
  <2>2. ASSUME stage = "run", ShouldScroll
        PROVE  index + 1 \in DOMAIN buttons
    <3>1. /\ buttons = reminders_list /\ index \in Nat
          /\ Len(reminders_list) \in Nat /\ DOMAIN reminders_list = 1 .. Len(reminders_list)
      BY <2>2, LenProperties DEF ViewInv, HeapInv, TypeOK, ButtonsMatchQueue, Stages, Live
    <3>2. QED
      BY <2>2, <3>1 DEF ShouldScroll
  <2>3. QED
    BY <2>1, <2>2 DEF ClicksAndScrollsFindTheirTarget
<1>2. QED
  BY <1>1, ViewInvariant, PTL
=============================================================================
