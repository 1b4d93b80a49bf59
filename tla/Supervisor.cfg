\* One command whose worker may hang and whose supervisor may be killed, beside ingest.
SPECIFICATION CommandSpec
CONSTANT Readers = {c1}
INVARIANTS CommandTypeOK SuccessIsSynced QuietAfterReport OverdueIsKilled
PROPERTIES CommandEnds LockComesBack
CHECK_DEADLOCK FALSE
