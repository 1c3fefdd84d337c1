CONSTANT Client = {c1}
SPECIFICATION FairSpec
PROPERTY ExitsIfUnbound
