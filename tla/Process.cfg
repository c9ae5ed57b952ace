\* With and without plain HTTP: main waits for different threads first.
SPECIFICATION FairSpec
CONSTANT Configs = {{}, {"http", "h3"}, {"https"}}
INVARIANTS TypeOK ExitIsLast StopsOnlyWhenTold
PROPERTIES PlanesEnd TermThenHupExits
