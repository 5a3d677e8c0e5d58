SPECIFICATION FairSpec
CONSTANT Senders = {s1, s2, s3}
INVARIANTS TypeOK 
PROPERTIES PromptIdStays EveryCallEnds
