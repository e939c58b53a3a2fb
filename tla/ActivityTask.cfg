\* Three attempts: a token of the first can meet the second while it runs, and
\* the third after the second was lost.  An activity that is closed rests.
CONSTANT
    MaxAttempts = 3
SPECIFICATION Spec
CHECK_DEADLOCK FALSE
INVARIANTS
    TypeOK
    TruthfulRecord
    AnsweredOnce
