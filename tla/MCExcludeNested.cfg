SPECIFICATION ExcludeSpec
CONSTANT Universe = {0,1,2,3,4,5}
INVARIANT AskedIsExcluded
