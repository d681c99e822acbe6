\* One request and, after a crash, another.
CONSTANT MaxWaiting = 1
SPECIFICATION FairSpec
PROPERTY InvocationResumes
