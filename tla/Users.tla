------------------------------- MODULE Users -------------------------------
(***************************************************************************)
(* createUserService (packages/user/src/createUserService.ts) over a table *)
(* of TableAdapters.  Each call is a few queries, with nothing that keeps  *)
(* another call from running between them.  ucall[c].at names the query    *)
(* that the call of c awaits.                                              *)
(***************************************************************************)
EXTENDS TableAdapters

VARIABLE ucall

NoUserCall == [op |-> "none", at |-> "idle"]
NoFilter == <<>>

UserAnswers(c, out, rows) ==
    /\ ucall' = [ucall EXCEPT ![c] = [@ EXCEPT !.at = "returned", !.out = out, !.rows = rows]]
    /\ query' = [query EXCEPT ![c] = NoQuery]
    /\ Untouched
UserAsks(c, at, q) ==
    /\ ucall' = [ucall EXCEPT ![c] = [@ EXCEPT !.at = at]]
    /\ Asks(c, q) /\ Untouched
UserAwaits(c, op, at) == ucall[c].op = op /\ ucall[c].at = at /\ Served(c)

ByEmail(email) == Query("findOne", Undefined, [email |-> email], NoFilter)
UserById(id) == Query("findById", id, NoFilter, NoFilter)
CreateUser(email) == Query("create", Undefined, NoFilter, [email |-> email])
UpdateUser(id, email) ==
    Query("update", id, NoFilter, IF email = Undefined THEN <<>> ELSE [email |-> email])

(* A call: create, update of a user's email or of something else (Undefined),
   delete, findById, findByEmail and findMany. *)
UserStarts(c, op, id, email) ==
    /\ ucall[c] = NoUserCall
    /\ ucall' = [ucall EXCEPT ![c] =
           [op |-> op, at |-> IF op = "create" THEN "check"
                              ELSE IF op \in {"update", "delete"} THEN "find" ELSE "answer",
            id |-> id, email |-> email, rows |-> {}, out |-> "none"]]
    /\ Asks(c, CASE op \in {"create", "findByEmail"} -> ByEmail(email)
                 [] op = "findMany" -> Query("findMany", Undefined, NoFilter, NoFilter)
                 [] OTHER -> UserById(id))
    /\ Untouched
UserEnds(c) ==
    /\ ucall[c].at = "returned"
    /\ ucall' = [ucall EXCEPT ![c] = NoUserCall]
    /\ UNCHANGED query /\ Untouched

CreateCheckedBug(c) ==
    /\ UserAwaits(c, "create", "check")
    /\ UserAsks(c, "answer", CreateUser(ucall[c].email))
CreateChecked(c) ==
    /\ UserAwaits(c, "create", "check")
    /\ IF query[c].rows # {} THEN UserAnswers(c, "threw", {})     \* DuplicateEmailError
       ELSE UserAsks(c, "answer", CreateUser(ucall[c].email))

(* Of the user that was found only the id and the email are used: with another
   email the email is looked for, with its own the update follows. *)
UpdateFound(c) ==
    LET k == ucall[c]
        renames == \E row \in query[c].rows : k.email \notin {Undefined, row.email}
    IN  /\ UserAwaits(c, "update", "find")
        /\ IF query[c].rows = {} THEN UserAnswers(c, "threw", {})  \* UserNotFoundError
           ELSE IF renames THEN UserAsks(c, "check", ByEmail(k.email))
           ELSE UserAsks(c, "answer", UpdateUser(k.id, k.email))

UpdateChecked(c) ==
    /\ UserAwaits(c, "update", "check")
    /\ IF query[c].rows # {} THEN UserAnswers(c, "threw", {})     \* DuplicateEmailError
       ELSE UserAsks(c, "answer", UpdateUser(ucall[c].id, ucall[c].email))

DeleteFound(c) ==
    /\ UserAwaits(c, "delete", "find")
    /\ IF query[c].rows = {} THEN UserAnswers(c, "threw", {})     \* UserNotFoundError
       ELSE UserAsks(c, "answer", Query("delete", ucall[c].id, NoFilter, NoFilter))

(* The last query of a call answers it; one that is rejected ends it. *)
UserServed(c) ==
    /\ ucall[c].at = "answer" /\ Served(c)
    /\ UserAnswers(c, "done", query[c].rows)
UserFails(c) ==
    /\ ucall[c].at \in {"find", "check", "answer"} /\ Settled(c) /\ ~Served(c)
    /\ UserAnswers(c, query[c].out, {})

UserStep(c) ==
    \/ CreateChecked(c) \/ UpdateFound(c) \/ UpdateChecked(c) \/ DeleteFound(c)
    \/ UserServed(c) \/ UserFails(c)
    \/ ucall[c].at # "idle" /\ Statement(c) /\ UNCHANGED ucall
=============================================================================
