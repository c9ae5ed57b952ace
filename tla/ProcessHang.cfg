SPECIFICATION FairSpec
CONSTANT Configs = {{"http"}}
PROPERTY TermExits
