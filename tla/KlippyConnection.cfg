SPECIFICATION FairSpec
INVARIANTS TypeOK ToldInOrder ReadyThenShutdown
PROPERTIES  ConnectsAgain
