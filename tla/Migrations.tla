----------------------------- MODULE Migrations -----------------------------
(***************************************************************************)
(* common-py MigrationService and MigrationExecutor, as run_migrations.py  *)
(* uses them: upgrade to the latest revision or downgrade to base, perhaps *)
(* by two runners at once, on a database that may not answer.              *)
(*                                                                         *)
(* A revision is its number, 0 for a database at base.  Alembic is         *)
(* external: one command is one transaction, which fails when the revision *)
(* it started from has changed by its commit.                              *)
(***************************************************************************)
EXTENDS Naturals

CONSTANTS
    Runners,    \* run_migrations.py processes
    Latest,     \* number of the latest migration
    Tries,      \* MigrationConfig.max_retries
    MaxRuns,    \* bound on their starts
    MaxOutages  \* bound on failing connection attempts

ASSUME MigrationsAssumption ==
    Latest \in Nat \ {0} /\ Tries \in Nat \ {0} /\ MaxRuns \in Nat /\ MaxOutages \in Nat

\* _get_current_revision gives None at base and when it cannot connect.
None == 0

VARIABLES
    revision,   \* revision of the database
    step,       \* where the runner stands
    goal,       \* its action
    dry,        \* config.dry_run
    knocks,     \* failed attempts of the current _get_connection
    before,     \* current_rev
    base,       \* revision the command has started from
    after,      \* final_rev
    unread,     \* history: final_rev is None for want of a connection
    moved,      \* history: actions that have changed the revision
    runsMade, outages

migrationVars == <<revision, step, goal, dry, knocks, before, base, after, unread, moved,
                   runsMade, outages>>

MigrationsInit ==
    /\ revision \in 0..Latest /\ step = [r \in Runners |-> "idle"]
    /\ goal = [r \in Runners |-> "upgrade"] /\ dry = [r \in Runners |-> FALSE]
    /\ knocks = [r \in Runners |-> 0] /\ before = [r \in Runners |-> None]
    /\ base = [r \in Runners |-> None] /\ after = [r \in Runners |-> None]
    /\ unread = [r \in Runners |-> FALSE] /\ moved = {} /\ runsMade = 0 /\ outages = 0

StepTo(r, stage) == step' = [step EXCEPT ![r] = stage]

\* run_migration
Run(r, action, isDry) ==
    /\ step[r] \in {"idle", "ok", "failed", "error"} /\ StepTo(r, "test")
    /\ runsMade < MaxRuns /\ runsMade' = runsMade + 1
    /\ goal' = [goal EXCEPT ![r] = action] /\ dry' = [dry EXCEPT ![r] = isDry]
    /\ knocks' = [knocks EXCEPT ![r] = 0]
    /\ UNCHANGED <<revision, before, base, after, unread, moved, outages>>

\* An attempt of _get_connection fails.  Another follows, until max_retries;
\* then the prerequisites are not met, or the revision is taken for None.
Knock(r) ==
    /\ step[r] \in {"test", "read", "verify"} /\ outages < MaxOutages /\ outages' = outages + 1
    /\ IF knocks[r] + 1 < Tries
       THEN knocks' = [knocks EXCEPT ![r] = @ + 1] /\ UNCHANGED <<step, before, after, unread>>
       ELSE /\ knocks' = [knocks EXCEPT ![r] = 0]
            /\ \/ step[r] = "test" /\ StepTo(r, "failed") /\ UNCHANGED <<before, after, unread>>
               \/ /\ step[r] = "read" /\ StepTo(r, "compare")
                  /\ before' = [before EXCEPT ![r] = None] /\ UNCHANGED <<after, unread>>
               \/ /\ step[r] = "verify" /\ StepTo(r, "judge")
                  /\ after' = [after EXCEPT ![r] = None] /\ unread' = [unread EXCEPT ![r] = TRUE]
                  /\ UNCHANGED before
    /\ UNCHANGED <<revision, goal, dry, base, moved, runsMade>>

\* The connection is there: the test passes, or the revision is read.
Answer(r) ==
    /\ knocks' = [knocks EXCEPT ![r] = 0]
    /\ \/ step[r] = "test" /\ StepTo(r, "read") /\ UNCHANGED <<before, after, unread>>
       \/ /\ step[r] = "read" /\ StepTo(r, "compare")
          /\ before' = [before EXCEPT ![r] = revision] /\ UNCHANGED <<after, unread>>
       \/ /\ step[r] = "verify" /\ StepTo(r, "judge")
          /\ after' = [after EXCEPT ![r] = revision] /\ unread' = [unread EXCEPT ![r] = FALSE]
          /\ UNCHANGED before
    /\ UNCHANGED <<revision, goal, dry, base, moved, runsMade, outages>>

\* An upgrade that has nothing to do is done.  A dry run runs no command.
Compare(r) ==
    /\ step[r] = "compare"
    /\ StepTo(r, IF goal[r] = "upgrade" /\ before[r] = Latest THEN "ok"
                 ELSE IF dry[r] THEN "verify" ELSE "begin")
    /\ UNCHANGED <<revision, goal, dry, knocks, before, base, after, unread, moved,
                   runsMade, outages>>

\* The command reads the revision itself, and so knows what is left to do.
Begin(r) ==
    /\ step[r] = "begin" /\ StepTo(r, "command") /\ base' = [base EXCEPT ![r] = revision]
    /\ UNCHANGED <<revision, goal, dry, knocks, before, after, unread, moved, runsMade, outages>>

\* It commits; or a migration fails, another runner was first, or the
\* connection breaks, and the transaction is rolled back.
Command(r) ==
    LET target == IF goal[r] = "upgrade" THEN Latest ELSE 0 IN
    /\ step[r] = "command"
    /\ \/ /\ base[r] = revision /\ StepTo(r, "verify") /\ revision' = target
          /\ moved' = IF revision = target THEN moved ELSE moved \cup {goal[r]}
       \/ StepTo(r, "error") /\ UNCHANGED <<revision, moved>>
    /\ UNCHANGED <<goal, dry, knocks, before, base, after, unread, runsMade, outages>>

\* Mutant: an upgrade is verified by a revision that has changed.
JudgeChanged(r) ==
    /\ step[r] = "judge"
    /\ StepTo(r, IF after[r] # before[r] \/ (goal[r] = "downgrade" /\ after[r] = None)
                 THEN "ok" ELSE "failed")
    /\ UNCHANGED <<revision, goal, dry, knocks, before, base, after, unread, moved,
                   runsMade, outages>>

\* The verification by final_rev.  The head is always known: Alembic gives it, or
\* the names of the migrations, which all begin with their numbers; so the
\* weaker test of upgrade_to_head for want of a head has no case.
Judge(r) ==
    /\ step[r] = "judge"
    /\ StepTo(r, IF after[r] = (IF goal[r] = "upgrade" THEN Latest ELSE None)
                 THEN "ok" ELSE "failed")
    /\ UNCHANGED <<revision, goal, dry, knocks, before, base, after, unread, moved,
                   runsMade, outages>>

MigrationsNext ==
    \E r \in Runners :
       \/ \E action \in {"upgrade", "downgrade"}, isDry \in BOOLEAN : Run(r, action, isDry)
       \/ Knock(r) \/ Answer(r) \/ Compare(r) \/ Begin(r) \/ Command(r) \/ Judge(r)

MigrationsSpec == MigrationsInit /\ [][MigrationsNext]_migrationVars

-----------------------------------------------------------------------------
\* Properties

MigrationsTypeOK ==
    /\ revision \in 0..Latest /\ base \in [Runners -> 0..Latest]
    /\ step \in [Runners -> {"idle", "test", "read", "compare", "begin", "command",
                             "verify", "judge", "ok", "failed", "error"}]
    /\ knocks \in [Runners -> 0..Tries-1] /\ moved \subseteq {"upgrade", "downgrade"}

\* A success that is reported, to the exit code of run_migrations.py, holds
\* if nobody has migrated the other way: of an upgrade also in a dry run,
\* beside another runner, or when the first reading of the revision fails; of a
\* downgrade only if the database answers at the end, because no answer is
\* taken for a database at base.
VerdictHonest ==
    \A r \in Runners : step[r] = "ok" =>
        IF goal[r] = "upgrade" THEN "downgrade" \notin moved => revision = Latest
        ELSE "upgrade" \notin moved /\ ~unread[r] => revision = 0
=============================================================================
