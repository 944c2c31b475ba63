CONSTANT Tasks = {t1, t2}
SPECIFICATION FairSpec
INVARIANTS TypeOK FutureAgrees OutcomeBeforeState EventsDelivered
PROPERTIES RefinesWorker OutcomeIsPublished
CHECK_DEADLOCK FALSE
