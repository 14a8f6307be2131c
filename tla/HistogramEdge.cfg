SPECIFICATION ApSpec
INVARIANT BucketCountedOrRefused
CHECK_DEADLOCK FALSE
